---- MODULE Spec2Model ----
(***************************************************************************)
(* Deterministic scoring engine of the accreditation evaluator: the AICTE  *)
(* formula library and overall aggregator (services/kpi_official.py), the  *)
(* evidence guard (services/production_guard.py), the NAAC and NIRF        *)
(* calculation engines and the calculate_kpis driver (services/kpi.py).    *)
(*                                                                         *)
(* Conventions.                                                            *)
(*  - An optional Python value is a tuple: None is << >>, a number n is    *)
(*    <<"num", n>>, a non-numeric string is <<"str">>, a non-empty dict is *)
(*    <<"obj">>, a list is <<"list", elements>>.                           *)
(*  - A dict is a function from its keys; dict.get(k) is Get(d, k).        *)
(*  - A score is kept in hundredths (45.0 is 4500): every score the code   *)
(*    returns went through round(x, 2).  Intermediate values are exact     *)
(*    rationals [n, d].                                                    *)
(***************************************************************************)
EXTENDS Integers, Sequences, FiniteSets, TLC

VARIABLES
    fn,            \* entry point the evaluation exercises
    data,          \* fact set handed to a formula function (dict)
    evidence_map,  \* field name -> evidence record (dict)
    arg,           \* arguments of an aggregator / engine call
    ret,           \* value returned by the call
    pc             \* "ready" before the call, "done" after it

vars == <<fn, data, evidence_map, arg, ret, pc>>

\* ------------------------------------------------------------------------
\* Python values
\* ------------------------------------------------------------------------
None == << >>

Num(n) == <<"num", n>>

Text == <<"str">>

Obj == <<"obj">>

IsNone(v) == v = None

IsNum(v) == Len(v) = 2 /\ v[1] = "num"

Val(v) == v[2]

List(s) == <<"list", s>>

IsList(v) == Len(v) = 2 /\ v[1] = "list"

\* a string whose text matters (a document id)
Str(s) == <<"str", s>>

IsStr(v) == Len(v) = 2 /\ v[1] = "str"

\* bool(v): None, 0 and the empty containers are falsy
Truthy(v) ==
    IF IsNone(v) THEN FALSE
    ELSE IF IsNum(v) THEN Val(v) # 0
    ELSE IF IsList(v) THEN Len(v[2]) > 0
    ELSE IF IsStr(v) THEN v[2] # ""
    ELSE TRUE

\* a or b
PyOr(a, b) == IF Truthy(a) THEN a ELSE b

\* a or b or ... for the operands s[1], s[2], ... in order
RECURSIVE OrChain(_)
OrChain(s) == IF Len(s) = 1 THEN s[1] ELSE PyOr(s[1], OrChain(Tail(s)))

\* the empty dict
EmptyDict == << >>

\* d.get(k)
Get(d, k) == IF k \in DOMAIN d THEN d[k] ELSE None

\* utils.parse_numeric: the numeric value of a number, None for None and for
\* text that holds no number
parse_numeric(v) == IF IsNone(v) THEN None ELSE IF IsNum(v) THEN v ELSE None

\* ------------------------------------------------------------------------
\* Exact rationals and round(x, 2)
\* ------------------------------------------------------------------------
RECURSIVE GCD(_, _)
GCD(a, b) == IF b = 0 THEN a ELSE GCD(b, a % b)

Abs(n) == IF n < 0 THEN 0 - n ELSE n

\* the fraction n / d (d > 0) in lowest terms
Rat(n, d) ==
    LET g == GCD(Abs(n), d)
    IN  [n |-> n \div g, d |-> d \div g]

RInt(n) == Rat(n, 1)

RAdd(a, b) == Rat(a.n * b.d + b.n * a.d, a.d * b.d)

RSub(a, b) == Rat(a.n * b.d - b.n * a.d, a.d * b.d)

RMul(a, b) == Rat(a.n * b.n, a.d * b.d)

RDiv(a, b) == Rat(a.n * b.d, a.d * b.n)

RLe(a, b) == a.n * b.d <= b.n * a.d

RLt(a, b) == a.n * b.d < b.n * a.d

RMin(a, b) == IF RLe(a, b) THEN a ELSE b

RMax(a, b) == IF RLe(a, b) THEN b ELSE a

\* n / d rounded to the nearest integer, ties to the even neighbour (d > 0)
RoundHalfEven(n, d) ==
    LET q == n \div d
        r == n % d
    IN  IF 2 * r < d THEN q
        ELSE IF 2 * r > d THEN q + 1
        ELSE IF q % 2 = 0 THEN q ELSE q + 1

\* round(x, 2), as a number of hundredths
Round2(x) == RoundHalfEven(x.n * 100, x.d)

\* round(x, 2) of a float quotient n / d of hundredths: the nearest hundredth; midway
\* between two hundredths the double that holds the quotient lies on either side,
\* and tie_up tells which
RoundFloat(n, d, tie_up) ==
    LET q == n \div d
        r == n % d
    IN  IF 2 * r < d THEN q
        ELSE IF 2 * r > d THEN q + 1
        ELSE IF tie_up THEN q + 1 ELSE q

\* ------------------------------------------------------------------------
\* Evidence guard (services/production_guard.py)
\* ------------------------------------------------------------------------
\* An evidence record; an absent or empty one is None.
Ev(snippet, source_doc) == <<[snippet |-> snippet, source_doc |-> source_doc]>>

\* evidence_map.get(k1) or evidence_map.get(k2) or ... or {}
RECURSIVE EvidenceOf(_, _)
EvidenceOf(em, keys) ==
    IF keys = << >> THEN None
    ELSE IF Head(keys) \in DOMAIN em /\ em[Head(keys)] # None THEN em[Head(keys)]
    ELSE EvidenceOf(em, Tail(keys))

\* the guard with the evidence test left out
validate_evidence_required_unchecked(value, evidence) == TRUE

\* ProductionGuard.validate_evidence_required: has_evidence
validate_evidence_required(value, evidence) ==
    IF IsNone(value) THEN TRUE
    ELSE IF evidence = None THEN FALSE
    ELSE IF evidence[1].snippet = "" /\ evidence[1].source_doc = "" THEN FALSE
    ELSE TRUE

\* the value kept after the guard: unchanged when evidenced, None otherwise
Guarded(value, evidence) ==
    IF validate_evidence_required(value, evidence) THEN value ELSE None

\* ------------------------------------------------------------------------
\* AICTE Faculty-Student Ratio (services/kpi_official.py)
\* ------------------------------------------------------------------------
FsrFacultyInput(d) ==
    OrChain(<< Get(d, "faculty_count_num"),
               parse_numeric(Get(d, "faculty_count")),
               parse_numeric(Get(d, "total_faculty")),
               parse_numeric(Get(d, "faculty")) >>)

FsrStudentInput(d) ==
    OrChain(<< Get(d, "student_count_num"),
               Get(d, "total_students_num"),
               Get(d, "total_intake_num"),
               parse_numeric(Get(d, "total_students")),
               parse_numeric(Get(d, "student_count")),
               parse_numeric(Get(d, "total_intake")),
               parse_numeric(Get(d, "admitted_students")) >>)

\* intake of one entry of programs_approved (0 when it adds nothing)
ProgramIntake(program) ==
    LET intake == parse_numeric(OrChain(<< Get(program, "intake_2025_26"),
                                           Get(program, "intake"),
                                           Get(program, "students") >>))
    IN  IF Truthy(intake) THEN Val(intake) ELSE 0

RECURSIVE SumIntake(_)
SumIntake(programs) ==
    IF programs = << >> THEN 0
    ELSE ProgramIntake(Head(programs)) + SumIntake(Tail(programs))

\* the programs_approved fallback, taken only when no student count was found
FsrStudentFallback(d, student_count) ==
    IF ~IsNone(student_count) THEN student_count
    ELSE LET programs == IF "programs_approved" \in DOMAIN d
                         THEN d["programs_approved"] ELSE List(<< >>)
         IN  IF IsList(programs) /\ SumIntake(programs[2]) > 0
             THEN Num(SumIntake(programs[2]))
             ELSE None

\* the scoring rule with the slope of the 15..20 band carried into the penalty
FsrRule_slope8(fsr) ==
    IF RLe(fsr, RInt(15)) THEN RInt(100)
    ELSE IF RLe(fsr, RInt(20))
         THEN RSub(RInt(100), RMul(RSub(fsr, RInt(15)), RInt(8)))
         ELSE RMax(RInt(0), RSub(RInt(60), RMul(RSub(fsr, RInt(20)), RInt(8))))

\* the official scoring rule applied to fsr = students / faculty
FsrRule(fsr) ==
    IF RLe(fsr, RInt(15)) THEN RInt(100)
    ELSE IF RLe(fsr, RInt(20))
         THEN RSub(RInt(100), RMul(RSub(fsr, RInt(15)), RInt(8)))
         ELSE RMax(RInt(0), RSub(RInt(60), RMul(RSub(fsr, RInt(20)), RInt(3))))

calculate_aicte_fsr(d, em) ==
    LET faculty_evidence == EvidenceOf(em, <<"faculty_count", "total_faculty">>)
        student_evidence == EvidenceOf(em, <<"student_count", "total_students">>)
        faculty_count == Guarded(FsrFacultyInput(d), faculty_evidence)
        student_count == Guarded(FsrStudentFallback(d, FsrStudentInput(d)),
                                 student_evidence)
    IN  IF IsNone(faculty_count) \/ IsNone(student_count)
        THEN [score |-> None, info |-> "missing_inputs"]
        ELSE IF Val(faculty_count) = 0 \/ Val(student_count) = 0
        THEN [score |-> None, info |-> "error"]
        ELSE [score |-> Num(Round2(FsrRule(Rat(Val(student_count),
                                                Val(faculty_count))))),
              info |-> "computed"]

\* ------------------------------------------------------------------------
\* AICTE Infrastructure Score (services/kpi_official.py)
\* ------------------------------------------------------------------------
InfraStudentInput(d) ==
    OrChain(<< Get(d, "total_students_num"),
               Get(d, "student_count_num"),
               Get(d, "total_intake_num"),
               parse_numeric(Get(d, "total_students")),
               parse_numeric(Get(d, "student_count")),
               parse_numeric(Get(d, "total_intake")) >>)

\* the adequacy without its cap
Adequacy_uncapped(actual, required) == RMul(RDiv(RInt(actual), required), RInt(100))

\* min(100.0, (actual / required) * 100)
Adequacy(actual, required) ==
    RMin(RInt(100), RMul(RDiv(RInt(actual), required), RInt(100)))

\* math.ceil(n / k)
CeilDiv(n, k) == (n + k - 1) \div k

\* 1. area adequacy: evidence-gated, 4 sqm per student
InfraArea(d, em, student_count) ==
    LET found    == OrChain(<< Get(d, "built_up_area_sqm_num"),
                               Get(d, "built_up_area_num"),
                               parse_numeric(Get(d, "built_up_area")) >>)
        evidence == EvidenceOf(em, <<"built_up_area", "built_up_area_sqm">>)
        area     == IF ~IsNone(found) /\ Val(found) > 0
                    THEN Guarded(found, evidence) ELSE found
    IN  IF ~IsNone(area) /\ Val(area) > 0
        THEN Adequacy(Val(area), RInt(student_count * 4))
        ELSE RInt(0)

\* 2. classroom adequacy: evidence-gated, 40 students per classroom
InfraClassrooms(d, em, student_count) ==
    LET found    == OrChain(<< parse_numeric(Get(d, "total_classrooms")),
                               parse_numeric(Get(d, "classrooms")),
                               Num(0) >>)
        evidence == EvidenceOf(em, <<"classrooms", "total_classrooms">>)
        actual   == IF Val(found) > 0 /\ ~validate_evidence_required(found, evidence)
                    THEN 0 ELSE Val(found)
    IN  IF actual > 0
        THEN Adequacy(actual, RInt(CeilDiv(student_count, 40)))
        ELSE RInt(0)

\* 3. library adequacy: 0.5 sqm per student
InfraLibrary(d, em, student_count) ==
    LET library_area_sqm == OrChain(<< parse_numeric(Get(d, "library_area_sqm")),
                                       parse_numeric(Get(d, "library_area")),
                                       Num(0) >>)
    IN  IF Val(library_area_sqm) > 0
        THEN Adequacy(Val(library_area_sqm), Rat(student_count, 2))
        ELSE RInt(0)

\* 4. digital availability: 500 resources are 100%, a bare "yes" is 50
InfraDigital(d, em) ==
    LET digital_resources == OrChain(<< parse_numeric(Get(d, "digital_library_resources")),
                                        parse_numeric(Get(d, "digital_resources")),
                                        Num(0) >>)
        has_digital == PyOr(Get(d, "digital_library_systems"),
                            Get(d, "has_digital_library"))
    IN  IF Val(digital_resources) > 0
        THEN Adequacy(Val(digital_resources), RInt(500))
        ELSE IF Truthy(has_digital) THEN RInt(50) ELSE RInt(0)

\* 5. hostel availability: 40% of the students
InfraHostel(d, em, student_count) ==
    LET hostel_capacity == OrChain(<< parse_numeric(Get(d, "hostel_capacity")), Num(0) >>)
    IN  IF Val(hostel_capacity) > 0
        THEN Adequacy(Val(hostel_capacity), Rat(student_count * 2, 5))
        ELSE RInt(0)

\* 0.40*area + 0.25*classrooms + 0.15*library + 0.10*digital + 0.10*hostel
InfraWeighted(sub) ==
    RAdd(RAdd(RAdd(RAdd(RMul(Rat(40, 100), sub.area),
                        RMul(Rat(25, 100), sub.classrooms)),
                   RMul(Rat(15, 100), sub.library)),
              RMul(Rat(10, 100), sub.digital)),
         RMul(Rat(10, 100), sub.hostel))

calculate_aicte_infrastructure(d, em) ==
    LET student_evidence == EvidenceOf(em, <<"total_students", "student_count",
                                             "total_intake">>)
        student_count == Guarded(InfraStudentInput(d), student_evidence)
    IN  IF IsNone(student_count) \/ Val(student_count) = 0
        THEN [score |-> None, sub_scores |-> EmptyDict, info |-> "error"]
        ELSE LET sc  == Val(student_count)
                 sub == [area       |-> InfraArea(d, em, sc),
                         classrooms |-> InfraClassrooms(d, em, sc),
                         library    |-> InfraLibrary(d, em, sc),
                         digital    |-> InfraDigital(d, em),
                         hostel     |-> InfraHostel(d, em, sc)]
             IN  [score |-> Num(Round2(InfraWeighted(sub))),
                  sub_scores |-> sub,
                  info |-> "computed"]

\* ------------------------------------------------------------------------
\* AICTE Placement Index and Lab Compliance Index (services/kpi_official.py)
\* ------------------------------------------------------------------------
calculate_aicte_placement(d, em) ==
    LET placement_rate == OrChain(<< Get(d, "placement_rate_num"),
                                     parse_numeric(Get(d, "placement_percentage")),
                                     parse_numeric(Get(d, "placement_rate")) >>)
        placed_found == OrChain(<< Get(d, "students_placed_num"),
                                   Get(d, "total_placements_num"),
                                   parse_numeric(Get(d, "students_placed")),
                                   parse_numeric(Get(d, "total_placements")) >>)
        eligible_found == OrChain(<< Get(d, "students_eligible_num"),
                                     Get(d, "student_count_num"),
                                     Get(d, "total_students_num"),
                                     parse_numeric(Get(d, "students_eligible")),
                                     parse_numeric(Get(d, "total_students")),
                                     parse_numeric(Get(d, "student_count")) >>)
        placed_evidence == EvidenceOf(em, <<"students_placed", "total_placements">>)
        eligible_evidence == EvidenceOf(em, <<"students_eligible", "total_students",
                                              "student_count">>)
        students_placed == Guarded(placed_found, placed_evidence)
        students_eligible == Guarded(eligible_found, eligible_evidence)
    IN  IF ~IsNone(placement_rate)
        THEN [score |-> Num(Round2(RMin(RInt(Val(placement_rate)), RInt(100)))),
              info |-> "placement_rate"]
        ELSE IF IsNone(students_placed) \/ IsNone(students_eligible)
        THEN [score |-> None, info |-> "missing"]
        ELSE IF Val(students_eligible) = 0
        THEN [score |-> None, info |-> "zero"]
        ELSE [score |-> Num(Round2(RMin(RMul(Rat(Val(students_placed),
                                                 Val(students_eligible)),
                                             RInt(100)),
                                        RInt(100)))),
              info |-> "computed"]

Max(a, b) == IF a >= b THEN a ELSE b

\* required labs: the supplied figure, else estimated from the student count
LabRequired(d) ==
    LET required_labs == PyOr(Get(d, "required_labs_num"),
                              parse_numeric(Get(d, "required_labs")))
        student_count == OrChain(<< Get(d, "student_count_num"),
                                    Get(d, "total_students_num"),
                                    parse_numeric(Get(d, "total_students")),
                                    parse_numeric(Get(d, "student_count")) >>)
    IN  IF ~IsNone(required_labs) THEN Val(required_labs)
        ELSE IF Truthy(student_count) /\ Val(student_count) > 0
             THEN Max(5, Val(student_count) \div 50)
             ELSE 5

calculate_aicte_lab_compliance(d, em) ==
    LET found == OrChain(<< Get(d, "total_labs_num"),
                            parse_numeric(Get(d, "total_labs")),
                            parse_numeric(Get(d, "lab_count")),
                            Num(0) >>)
        lab_evidence == EvidenceOf(em, <<"total_labs", "lab_count">>)
        available_labs == IF Val(found) > 0 THEN Guarded(found, lab_evidence) ELSE found
    IN  IF IsNone(available_labs) \/ Val(available_labs) = 0
        THEN [score |-> None, info |-> "missing"]
        ELSE IF LabRequired(d) = 0
        THEN [score |-> None, info |-> "zero"]
        ELSE [score |-> Num(Round2(RMin(RMul(Rat(Val(available_labs), LabRequired(d)),
                                             RInt(100)),
                                        RInt(100)))),
              info |-> "computed"]

\* ------------------------------------------------------------------------
\* AICTE Overall Score (services/kpi_official.py)
\* ------------------------------------------------------------------------
AicteKeys == <<"fsr_score", "infrastructure_score", "placement_index",
               "lab_compliance_index">>

AicteNames == <<"FSR", "Infrastructure", "Placement", "Lab Compliance">>

\* the elements of s at the positions where mask holds, in order
RECURSIVE SelectMask(_, _)
SelectMask(s, mask) ==
    IF s = << >> THEN << >>
    ELSE (IF Head(mask) THEN <<Head(s)>> ELSE << >>) \o SelectMask(Tail(s), Tail(mask))

RECURSIVE SumSeq(_)
SumSeq(s) == IF s = << >> THEN 0 ELSE Head(s) + SumSeq(Tail(s))

\* x in s
Contains(s, x) == \E j \in 1..Len(s) : s[j] = x

\* the elements of a list
Elems(s) == {s[i] : i \in 1..Len(s)}

\* the average taken over all four KPIs, an unknown one counting as 0
calculate_aicte_overall_div4(kpi_scores, tie_up) ==
    LET has      == [i \in 1..4 |-> ~IsNone(Get(kpi_scores, AicteKeys[i]))]
        values   == [i \in 1..4 |-> IF has[i] THEN Val(Get(kpi_scores, AicteKeys[i]))
                                    ELSE 0]
        included == SelectMask(AicteNames, has)
    IN  IF Len(included) = 0
        THEN [score |-> None, included |-> << >>, excluded |-> AicteNames]
        ELSE [score |-> Num(RoundFloat(SumSeq(values), 4, tie_up)),
              included |-> included,
              excluded |-> SelectMask(AicteNames, [i \in 1..4 |-> ~has[i]])]

calculate_aicte_overall(kpi_scores, tie_up) ==
    LET has      == [i \in 1..4 |-> ~IsNone(Get(kpi_scores, AicteKeys[i]))]
        values   == [i \in 1..4 |-> IF has[i] THEN Val(Get(kpi_scores, AicteKeys[i]))
                                    ELSE 0]
        included == SelectMask(AicteNames, has)
        available_kpis == SelectMask(values, has)
    IN  IF Len(available_kpis) = 0
        THEN [score |-> None, included |-> << >>, excluded |-> AicteNames]
        ELSE [score |-> Num(RoundFloat(SumSeq(available_kpis), Len(available_kpis),
                                       tie_up)),
              included |-> included,
              excluded |-> SelectMask(AicteNames,
                                      [i \in 1..4 |-> ~Contains(included, AicteNames[i])])]

\* ------------------------------------------------------------------------
\* NAAC CGPA (services/naac_calculation_engine.py)
\* ------------------------------------------------------------------------
NaacIds == <<"C1", "C2", "C3", "C4", "C5", "C6", "C7">>

\* NAAC_WEIGHTS, of total 1000; an id outside C1..C7 weighs 0
NAAC_WEIGHTS(c_id) ==
    CASE c_id = "C1" -> 150
      [] c_id = "C2" -> 200
      [] c_id = "C3" -> 250
      [] c_id \in {"C4", "C5", "C6", "C7"} -> 100
      [] OTHER -> 0

NAAC_TOTAL_WEIGHT == 1000

\* sum of score * weight over the entries of the dict
RECURSIVE NaacWeightedSum(_, _)
NaacWeightedSum(criterion_scores, ids) ==
    IF ids = {} THEN 0
    ELSE LET c_id == CHOOSE c \in ids : TRUE
         IN  Val(criterion_scores[c_id]) * NAAC_WEIGHTS(c_id)
             + NaacWeightedSum(criterion_scores, ids \ {c_id})

\* the CGPA taken over the criteria that are present, their weights renormalised
calculate_cgpa_partial(criterion_scores, tie_up) ==
    LET missing == SelectMask(NaacIds,
                              [i \in 1..7 |-> IsNone(Get(criterion_scores, NaacIds[i]))])
        present == {c \in DOMAIN criterion_scores : ~IsNone(criterion_scores[c])}
        weight  == NaacWeightedSum([c \in present |-> Num(1)], present)
    IN  IF weight = 0
        THEN [cgpa |-> None, missing |-> missing]
        ELSE [cgpa |-> Num(RoundFloat(NaacWeightedSum(criterion_scores, present),
                                      weight, tie_up)),
              missing |-> missing]

\* NAACCalculationEngine.calculate_cgpa: (cgpa, missing); scores are in hundredths
\* of a grade point
calculate_cgpa(criterion_scores, tie_up) ==
    LET missing == SelectMask(NaacIds,
                              [i \in 1..7 |-> IsNone(Get(criterion_scores, NaacIds[i]))])
    IN  IF missing # << >>
        THEN [cgpa |-> None, missing |-> missing]
        ELSE [cgpa |-> Num(RoundFloat(NaacWeightedSum(criterion_scores,
                                                      DOMAIN criterion_scores),
                                      NAAC_TOTAL_WEIGHT, tie_up)),
              missing |-> << >>]

\* ------------------------------------------------------------------------
\* NIRF perception parameter and overall score
\* (services/nirf_calculation_engine.py)
\* ------------------------------------------------------------------------
PerceptionKeys == <<"peer_perception", "employer_perception", "academic_perception">>

\* the perception score computed from the data without asking for the survey
calculate_pr_unflagged(has_perception_survey, perception_data, evidence_doc_ids, tie_up) ==
    IF evidence_doc_ids = << >>
    THEN [score |-> None, status |-> "No evidence provided"]
    ELSE IF perception_data = EmptyDict
    THEN [score |-> None, status |-> "No perception data"]
    ELSE LET has == [i \in 1..3 |-> ~IsNone(Get(perception_data, PerceptionKeys[i]))]
             sub_scores == SelectMask([i \in 1..3 |->
                                          IF has[i]
                                          THEN Val(Get(perception_data, PerceptionKeys[i]))
                                          ELSE 0],
                                      has)
         IN  IF sub_scores = << >>
             THEN [score |-> None, status |-> "Insufficient perception data"]
             ELSE [score |-> Num(RoundFloat(SumSeq(sub_scores), Len(sub_scores), tie_up)),
                   status |-> "Computed"]

\* NIRFCalculationEngine.calculate_pr: (score, status); perception_data is a dict
\* (None and {} are both falsy), evidence_doc_ids a list; scores in hundredths
calculate_pr(has_perception_survey, perception_data, evidence_doc_ids, tie_up) ==
    IF ~has_perception_survey
    THEN [score |-> None, status |-> "Perception survey not uploaded"]
    ELSE IF evidence_doc_ids = << >>
    THEN [score |-> None, status |-> "No evidence provided"]
    ELSE IF perception_data = EmptyDict
    THEN [score |-> None, status |-> "No perception data"]
    ELSE LET has == [i \in 1..3 |-> ~IsNone(Get(perception_data, PerceptionKeys[i]))]
             sub_scores == SelectMask([i \in 1..3 |->
                                          IF has[i]
                                          THEN Val(Get(perception_data, PerceptionKeys[i]))
                                          ELSE 0],
                                      has)
         IN  IF sub_scores = << >>
             THEN [score |-> None, status |-> "Insufficient perception data"]
             ELSE [score |-> Num(RoundFloat(SumSeq(sub_scores), Len(sub_scores), tie_up)),
                   status |-> "Computed"]

NirfRequired == <<"TLR", "RP", "GO", "OI">>

\* the overall score always divided by five, a missing PR counting as 0
calculate_overall_score_div5(param_scores, tie_up) ==
    LET lacks      == [i \in 1..4 |-> IsNone(Get(param_scores, NirfRequired[i]))]
        lacks_pr   == IsNone(Get(param_scores, "PR"))
        missing    == SelectMask(NirfRequired, lacks)
                      \o (IF lacks_pr THEN <<"PR (Perception Survey)">> ELSE << >>)
        available  == SelectMask([i \in 1..4 |-> IF lacks[i] THEN 0
                                                 ELSE Val(param_scores[NirfRequired[i]])],
                                 [i \in 1..4 |-> ~lacks[i]])
                      \o (IF lacks_pr THEN << >> ELSE <<Val(param_scores["PR"])>>)
    IN  IF Len(SelectMask(NirfRequired, lacks)) # 0
        THEN [score |-> None, missing |-> missing]
        ELSE [score |-> Num(RoundFloat(SumSeq(available), 5, tie_up)),
              missing |-> missing]

\* NIRFCalculationEngine.calculate_overall_score: (score, missing)
calculate_overall_score(param_scores, tie_up) ==
    LET lacks      == [i \in 1..4 |-> IsNone(Get(param_scores, NirfRequired[i]))]
        lacks_pr   == IsNone(Get(param_scores, "PR"))
        missing    == SelectMask(NirfRequired, lacks)
                      \o (IF lacks_pr THEN <<"PR (Perception Survey)">> ELSE << >>)
        required_missing == SelectMask(missing,
                                       [i \in 1..Len(missing) |->
                                           Contains(NirfRequired, missing[i])])
        available  == SelectMask([i \in 1..4 |-> IF lacks[i] THEN 0
                                                 ELSE Val(param_scores[NirfRequired[i]])],
                                 [i \in 1..4 |-> ~lacks[i]])
                      \o (IF lacks_pr THEN << >> ELSE <<Val(param_scores["PR"])>>)
    IN  IF required_missing # << >>
        THEN [score |-> None, missing |-> missing]
        ELSE [score |-> Num(RoundFloat(SumSeq(available), Len(available), tie_up)),
              missing |-> missing]

\* ------------------------------------------------------------------------
\* NBA calculation engine (services/nba_calculation_engine.py)
\* ------------------------------------------------------------------------
\* NBACalculationEngine.validate_evidence
nba_validate_evidence(evidence_doc_id) == Truthy(evidence_doc_id)

\* NBACalculationEngine.calculate_co_attainment (hundredths of a percent)
calculate_co_attainment(total_students, students_above_threshold, evidence_doc_id) ==
    IF ~nba_validate_evidence(evidence_doc_id) THEN None
    ELSE IF IsNone(total_students) \/ Val(total_students) = 0 THEN None
    ELSE IF IsNone(students_above_threshold) THEN None
    ELSE Num(Round2(RMul(Rat(Val(students_above_threshold), Val(total_students)),
                         RInt(100))))

\* the attainment recorded for each course outcome: co_lookup[co_id] is the last
\* record of the outcome whose attainment_percent is not None
RECURSIVE co_lookup(_)
co_lookup(co_attainments) ==
    IF co_attainments = << >> THEN EmptyDict
    ELSE LET n    == Len(co_attainments)
             co   == co_attainments[n]
             rest == co_lookup(SubSeq(co_attainments, 1, n - 1))
         IN  IF IsNone(co.attainment_percent)
             THEN rest
             ELSE (co.co_id :> co.attainment_percent) @@ rest

\* the mappings whose course outcome has a recorded attainment, in list order
RECURSIVE valid_mappings(_, _)
valid_mappings(mappings, lookup) ==
    IF mappings = << >> THEN << >>
    ELSE LET mapping == Head(mappings)
             rest    == valid_mappings(Tail(mappings), lookup)
         IN  IF mapping.co_id \in DOMAIN lookup
             THEN << [co_id |-> mapping.co_id, mapping_level |-> mapping.mapping_level,
                      attainment |-> Val(lookup[mapping.co_id])] >> \o rest
             ELSE rest

\* numerator: the sum of attainment * weight
RECURSIVE PoNumerator(_)
PoNumerator(valid) ==
    IF valid = << >> THEN 0
    ELSE Head(valid).attainment * Head(valid).mapping_level + PoNumerator(Tail(valid))

\* denominator: the sum of the weights
RECURSIVE PoDenominator(_)
PoDenominator(valid) ==
    IF valid = << >> THEN 0
    ELSE Head(valid).mapping_level + PoDenominator(Tail(valid))

\* the direct attainment taken over every mapping, an unknown attainment counted as 0
calculate_direct_po_attainment_zero_fill(co_attainments, mappings, tie_up) ==
    LET valid == [i \in 1..Len(mappings) |->
                    [co_id |-> mappings[i].co_id,
                     mapping_level |-> mappings[i].mapping_level,
                     attainment |-> IF mappings[i].co_id \in DOMAIN co_lookup(co_attainments)
                                    THEN Val(co_lookup(co_attainments)[mappings[i].co_id])
                                    ELSE 0]]
    IN  IF valid = << >>
        THEN [value |-> None, formula |-> "No valid CO mappings", contributing_cos |-> << >>]
        ELSE IF PoDenominator(valid) = 0
        THEN [value |-> None, formula |-> "Sum of mapping levels is 0",
              contributing_cos |-> valid]
        ELSE [value |-> Num(RoundFloat(PoNumerator(valid), PoDenominator(valid), tie_up)),
              formula |-> "Direct_PO", contributing_cos |-> valid]

\* NBACalculationEngine.calculate_direct_po_attainment:
\* (attainment_value, formula_used, contributing_cos)
calculate_direct_po_attainment(co_attainments, mappings, tie_up) ==
    LET valid == valid_mappings(mappings, co_lookup(co_attainments))
    IN  IF valid = << >>
        THEN [value |-> None, formula |-> "No valid CO mappings", contributing_cos |-> << >>]
        ELSE IF PoDenominator(valid) = 0
        THEN [value |-> None, formula |-> "Sum of mapping levels is 0",
              contributing_cos |-> valid]
        ELSE [value |-> Num(RoundFloat(PoNumerator(valid), PoDenominator(valid), tie_up)),
              formula |-> "Direct_PO", contributing_cos |-> valid]

\* DEFAULT_DIRECT_WEIGHT and DEFAULT_INDIRECT_WEIGHT, in percent
DEFAULT_DIRECT_WEIGHT == 80

DEFAULT_INDIRECT_WEIGHT == 20

\* the combination with a missing side counted as 0
calculate_final_po_attainment_zero_fill(direct_attainment, indirect_attainment, direct_weight, indirect_weight, tie_up) ==
    LET dw == Val(PyOr(direct_weight, Num(DEFAULT_DIRECT_WEIGHT)))
        iw == Val(PyOr(indirect_weight, Num(DEFAULT_INDIRECT_WEIGHT)))
        d  == IF IsNone(direct_attainment) THEN 0 ELSE Val(direct_attainment)
        i  == IF IsNone(indirect_attainment) THEN 0 ELSE Val(indirect_attainment)
    IN  IF IsNone(direct_attainment) /\ IsNone(indirect_attainment)
        THEN [value |-> None, formula |-> "Insufficient Evidence"]
        ELSE [value |-> Num(RoundFloat(d * dw + i * iw, 100, tie_up)),
              formula |-> "Final"]

\* NBACalculationEngine.calculate_final_po_attainment: (final_attainment, formula_used);
\* the weights are percentages, a weight of None or 0 is replaced by its default
calculate_final_po_attainment(direct_attainment, indirect_attainment, direct_weight, indirect_weight, tie_up) ==
    LET dw == Val(PyOr(direct_weight, Num(DEFAULT_DIRECT_WEIGHT)))
        iw == Val(PyOr(indirect_weight, Num(DEFAULT_INDIRECT_WEIGHT)))
    IN  IF IsNone(direct_attainment) /\ IsNone(indirect_attainment)
        THEN [value |-> None, formula |-> "Insufficient Evidence"]
        ELSE IF IsNone(indirect_attainment)
        THEN [value |-> direct_attainment, formula |-> "Direct only (No indirect data)"]
        ELSE IF IsNone(direct_attainment)
        THEN [value |-> indirect_attainment, formula |-> "Indirect only (No direct data)"]
        ELSE [value |-> Num(RoundFloat(Val(direct_attainment) * dw
                                       + Val(indirect_attainment) * iw, 100, tie_up)),
              formula |-> "Final"]

\* ------------------------------------------------------------------------
\* Weighted score components (services/naac_formulas.py, services/nirf_formulas.py)
\* ------------------------------------------------------------------------
\* a (name, score, weight) entry of score_components; the weight in hundredths
Component(score, weight) == <<[score |-> score, weight |-> weight]>>

\* a rubric component: present when the field is truthy, 100 for a non-empty dict or
\* list and 50 for any other value
Rubric(v, weight) ==
    IF Truthy(v)
    THEN Component(IF v = Obj \/ IsList(v) THEN RInt(100) ELSE RInt(50), weight)
    ELSE << >>

\* a count component: present when the count is positive, min(100, count / full * 100)
Scaled(v, full, weight) ==
    IF ~IsNone(v) /\ Val(v) > 0
    THEN Component(RMin(RInt(100), RMul(Rat(Val(v), full), RInt(100))), weight)
    ELSE << >>

\* a percentage component: present when the percentage is known, min(100, pct)
Capped(v, weight) ==
    IF ~IsNone(v) THEN Component(RMin(RInt(100), RInt(Val(v))), weight) ELSE << >>

\* a share-of-students component: present when the count is known and the student
\* total is positive, min(100, (count / total * 100) / target * 100)
Share(v, total_students, target, weight) ==
    IF ~IsNone(v) /\ Truthy(total_students) /\ Val(total_students) > 0
    THEN Component(RMin(RInt(100),
                        RMul(RDiv(RMul(Rat(Val(v), Val(total_students)), RInt(100)),
                                  RInt(target)),
                             RInt(100))),
                   weight)
    ELSE << >>

RECURSIVE WeightedSum(_)
WeightedSum(score_components) ==
    IF score_components = << >> THEN RInt(0)
    ELSE RAdd(RMul(Head(score_components).score, RInt(Head(score_components).weight)),
              WeightedSum(Tail(score_components)))

RECURSIVE TotalWeight(_)
TotalWeight(score_components) ==
    IF score_components = << >> THEN 0
    ELSE Head(score_components).weight + TotalWeight(Tail(score_components))

\* None without components, else round(weighted_sum / total_weight, 2)
FinalScore(score_components) ==
    IF Len(score_components) = 0 THEN None
    ELSE Num(Round2(RDiv(WeightedSum(score_components),
                         RInt(TotalWeight(score_components)))))

\* data.get(a) or data.get(b)
Either(d, a, b) == PyOr(Get(d, a), Get(d, b))

\* parse_numeric(data.get(a)) or parse_numeric(data.get(b))
EitherNum(d, a, b) == PyOr(parse_numeric(Get(d, a)), parse_numeric(Get(d, b)))

\* ------------------------------------------------------------------------
\* NAAC criteria (services/naac_formulas.py)
\* ------------------------------------------------------------------------
calculate_criterion_1(d, em) ==
    FinalScore(Rubric(Either(d, "curriculum_design", "curriculum_planning"), 40)
               \o Rubric(Either(d, "curriculum_implementation",
                                "syllabus_implementation"), 30)
               \o Rubric(Either(d, "academic_flexibility", "elective_courses"), 30))

calculate_criterion_2(d, em) ==
    FinalScore(Scaled(EitherNum(d, "student_enrolment", "total_students"), 1000, 30)
               \o Rubric(Either(d, "teaching_learning_process", "pedagogy"), 40)
               \o Rubric(Either(d, "evaluation_process", "assessment_methods"), 30))

calculate_criterion_3(d, em) ==
    FinalScore(Scaled(EitherNum(d, "research_publications", "publications"), 50, 40)
               \o Scaled(EitherNum(d, "research_projects", "funded_projects"), 10, 30)
               \o Scaled(EitherNum(d, "extension_activities", "community_services"),
                         5, 30))

calculate_criterion_4(d, em) ==
    FinalScore(Scaled(EitherNum(d, "built_up_area", "total_area"), 10000, 40)
               \o Scaled(EitherNum(d, "library_books", "library_volumes"), 50000, 30)
               \o Rubric(Either(d, "it_infrastructure", "computer_labs"), 30))

calculate_criterion_5(d, em) ==
    FinalScore(Rubric(Either(d, "student_support_services", "student_welfare"), 40)
               \o Capped(EitherNum(d, "student_progression_rate", "graduation_rate"), 30)
               \o Share(EitherNum(d, "student_participation", "co_curricular_activities"),
                        EitherNum(d, "total_students", "student_count"), 100, 30))

calculate_criterion_6(d, em) ==
    FinalScore(Rubric(Either(d, "governance_structure", "administrative_structure"), 40)
               \o Rubric(Either(d, "leadership", "leadership_team"), 30)
               \o Rubric(Either(d, "management_practices", "administrative_practices"),
                         30))

calculate_criterion_7(d, em) ==
    FinalScore(Rubric(Either(d, "institutional_values", "core_values"), 50)
               \o Rubric(Either(d, "best_practices", "innovative_practices"), 50))

\* ------------------------------------------------------------------------
\* NIRF parameters (services/nirf_formulas.py)
\* ------------------------------------------------------------------------
\* the faculty-student ratio component of TLR: bands at 15, 20 and 25, then 2 points
\* off per unit down to 0
TlrFsr(faculty_count, student_strength, weight) ==
    IF Truthy(faculty_count) /\ Truthy(student_strength) /\ Val(faculty_count) > 0
    THEN LET fsr == Rat(Val(student_strength), Val(faculty_count))
         IN  Component(IF RLe(fsr, RInt(15)) THEN RInt(100)
                       ELSE IF RLe(fsr, RInt(20)) THEN RInt(80)
                       ELSE IF RLe(fsr, RInt(25)) THEN RInt(60)
                       ELSE RMax(RInt(0),
                                 RSub(RInt(60), RMul(RSub(fsr, RInt(25)), RInt(2)))),
                       weight)
    ELSE << >>

calculate_tlr(d, em) ==
    LET student_strength ==
            Guarded(EitherNum(d, "total_students", "student_count"),
                    EvidenceOf(em, <<"total_students", "student_count">>))
        faculty_count ==
            Guarded(EitherNum(d, "faculty_count", "total_faculty"),
                    EvidenceOf(em, <<"faculty_count", "total_faculty">>))
    IN  FinalScore(Scaled(student_strength, 2000, 30)
                   \o TlrFsr(faculty_count, student_strength, 30)
                   \o Scaled(EitherNum(d, "financial_resources", "budget"), 10, 20)
                   \o Scaled(EitherNum(d, "library_books", "library_volumes"), 50000, 20))

calculate_rp(d, em) ==
    FinalScore(Scaled(EitherNum(d, "research_publications", "publications"), 100, 40)
               \o Scaled(EitherNum(d, "citations", "citation_count"), 500, 30)
               \o Scaled(EitherNum(d, "patents", "patent_count"), 10, 30))

calculate_go(d, em) ==
    FinalScore(Capped(EitherNum(d, "placement_rate", "placement_percentage"), 40)
               \o Share(EitherNum(d, "higher_studies_count", "students_higher_studies"),
                        EitherNum(d, "total_students", "student_count"), 100, 30)
               \o Capped(EitherNum(d, "graduation_rate", "pass_percentage"), 30))

calculate_oi(d, em) ==
    FinalScore(Share(EitherNum(d, "women_students", "female_students"),
                     EitherNum(d, "total_students", "student_count"), 40, 40)
               \o Share(EitherNum(d, "economically_disadvantaged_students",
                                  "sc_st_students"),
                        EitherNum(d, "total_students", "student_count"), 20, 30)
               \o Scaled(EitherNum(d, "outreach_activities", "community_services"),
                         10, 30))

\* NIRFFormulas.calculate_pr: the perception fields of the fact set, each capped at 100
nirf_formulas_calculate_pr(d, em) ==
    FinalScore(Capped(EitherNum(d, "peer_perception", "peer_ranking"), 50)
               \o Capped(EitherNum(d, "employer_perception", "employer_rating"), 30)
               \o Capped(EitherNum(d, "public_perception", "public_ranking"), 20))

\* ------------------------------------------------------------------------
\* NAAC and NIRF dispatch and overall scores (services/kpi_official.py)
\* ------------------------------------------------------------------------
\* calculate_naac_criterion: (score); an id outside criterion_1..criterion_7 gives None
calculate_naac_criterion(criterion_id, d, em) ==
    CASE criterion_id = "criterion_1" -> calculate_criterion_1(d, em)
      [] criterion_id = "criterion_2" -> calculate_criterion_2(d, em)
      [] criterion_id = "criterion_3" -> calculate_criterion_3(d, em)
      [] criterion_id = "criterion_4" -> calculate_criterion_4(d, em)
      [] criterion_id = "criterion_5" -> calculate_criterion_5(d, em)
      [] criterion_id = "criterion_6" -> calculate_criterion_6(d, em)
      [] criterion_id = "criterion_7" -> calculate_criterion_7(d, em)
      [] OTHER -> None

\* str.lower() of the names in use
Lower(name) ==
    CASE name = "AICTE" -> "aicte"
      [] name = "NAAC" -> "naac"
      [] name = "NIRF" -> "nirf"
      [] name = "NBA" -> "nba"
      [] name = "TLR" -> "tlr"
      [] name = "RP" -> "rp"
      [] name = "GO" -> "go"
      [] name = "OI" -> "oi"
      [] name = "PR" -> "pr"
      [] OTHER -> name

\* calculate_nirf_parameter: (score); a name outside tlr, rp, go, oi, pr gives None
calculate_nirf_parameter(parameter_name, d, em) ==
    LET name == Lower(parameter_name)
    IN  CASE name = "tlr" -> calculate_tlr(d, em)
          [] name = "rp" -> calculate_rp(d, em)
          [] name = "go" -> calculate_go(d, em)
          [] name = "oi" -> calculate_oi(d, em)
          [] name = "pr" -> nirf_formulas_calculate_pr(d, em)
          [] OTHER -> None

\* the (id, weight) items of a weights dict whose score is known
RECURSIVE IncludedItems(_, _)
IncludedItems(scores, weights) ==
    IF weights = << >> THEN << >>
    ELSE (IF IsNone(Get(scores, Head(weights)[1])) THEN << >> ELSE <<Head(weights)>>)
         \o IncludedItems(scores, Tail(weights))

RECURSIVE ItemIds(_)
ItemIds(items) == IF items = << >> THEN << >> ELSE <<Head(items)[1]>> \o ItemIds(Tail(items))

\* sum of score * weight over the items
RECURSIVE ItemWeightedSum(_, _)
ItemWeightedSum(scores, items) ==
    IF items = << >> THEN 0
    ELSE Val(scores[Head(items)[1]]) * Head(items)[2] + ItemWeightedSum(scores, Tail(items))

RECURSIVE ItemTotalWeight(_)
ItemTotalWeight(items) ==
    IF items = << >> THEN 0 ELSE Head(items)[2] + ItemTotalWeight(Tail(items))

\* the body shared by calculate_naac_overall and calculate_nirf_overall: the weighted
\* mean of the known scores, None when the known weights sum to 0; weights in
\* hundredths, in the order of the dict
weighted_overall(scores, weights, tie_up) ==
    LET included == IncludedItems(scores, weights)
        ids      == ItemIds(weights)
    IN  IF ItemTotalWeight(included) = 0
        THEN [score |-> None, included |-> << >>, excluded |-> ids]
        ELSE [score |-> Num(RoundFloat(ItemWeightedSum(scores, included),
                                       ItemTotalWeight(included), tie_up)),
              included |-> ItemIds(included),
              excluded |-> SelectMask(ids, [i \in 1..Len(ids) |->
                                               IsNone(Get(scores, ids[i]))])]

calculate_naac_overall(criterion_scores, criterion_weights, tie_up) ==
    weighted_overall(criterion_scores, criterion_weights, tie_up)

calculate_nirf_overall(parameter_scores, parameter_weights, tie_up) ==
    weighted_overall(parameter_scores, parameter_weights, tie_up)

\* ------------------------------------------------------------------------
\* Evidence map and fact aggregation over blocks
\* (services/evidence_tracker.py, services/kpi.py)
\* ------------------------------------------------------------------------
\* d with d[k] set to v
Put(d, k, v) == (k :> v) @@ d

\* the field names blocks use, in the order their dicts hold them
FieldNames ==
    <<"faculty_count", "total_faculty", "student_count", "total_intake",
      "curriculum_design", "research_publications", "student_support_services",
      "governance_structure", "best_practices", "built_up_area",
      "teaching_learning_process", "financial_resources", "placement_rate",
      "outreach_activities", "peer_perception", "employer_rating",
      "faculty_count_num", "total_faculty_num", "student_count_num",
      "total_intake_num", "built_up_area_num">>

\* dict.items() keys, in order
Keys(d) == SelectMask(FieldNames, [i \in 1..Len(FieldNames) |-> FieldNames[i] \in DOMAIN d])

\* key.endswith("_num")
IsNumKey(k) ==
    k \in {"faculty_count_num", "total_faculty_num", "student_count_num",
           "total_intake_num", "built_up_area_num", "area_num", "total_area_num",
           "campus_area_num", "building_area_num", "built_up_area_sqm_num"}

\* f"{key}_num"
NumKey(k) == k \o "_num"

\* the fields of one block written to the map whether or not they are recorded
RECURSIVE EvidenceFields_overwrite(_, _, _)
EvidenceFields_overwrite(em, block, keys) ==
    IF keys = << >> THEN em
    ELSE LET field_name == Head(keys)
             field_value == block.extracted_data[field_name]
             next == IF IsNone(field_value) \/ field_value = Str("")
                     THEN em
                     ELSE Put(em, field_name, Ev(block.evidence_snippet, block.source_doc))
         IN  EvidenceFields_overwrite(next, block, Tail(keys))

\* the evidence records the fields of one block add to the map: first record wins
RECURSIVE EvidenceFields(_, _, _)
EvidenceFields(em, block, keys) ==
    IF keys = << >> THEN em
    ELSE LET field_name == Head(keys)
             field_value == block.extracted_data[field_name]
             next == IF \/ IsNone(field_value) \/ field_value = Str("")
                        \/ field_name \in DOMAIN em
                     THEN em
                     ELSE Put(em, field_name, Ev(block.evidence_snippet, block.source_doc))
         IN  EvidenceFields(next, block, Tail(keys))

\* EvidenceTracker.build_evidence_map
RECURSIVE build_evidence_map(_)
build_evidence_map(blocks) ==
    IF blocks = << >> THEN EmptyDict
    ELSE LET block == blocks[Len(blocks)]
             em    == build_evidence_map(SubSeq(blocks, 1, Len(blocks) - 1))
         IN  IF block.extracted_data = EmptyDict THEN em
             ELSE EvidenceFields(em, block, Keys(block.extracted_data))

\* the first of the names that has a record in the map, None when none has
RECURSIVE FirstRecorded(_, _)
FirstRecorded(evidence_map_, names) ==
    IF names = << >> THEN None
    ELSE IF Head(names) \in DOMAIN evidence_map_ THEN evidence_map_[Head(names)]
    ELSE FirstRecorded(evidence_map_, Tail(names))

\* get_evidence_for_field: common_aliases.get(field_name, [])
common_aliases(field_name) ==
    CASE field_name = "faculty_count" -> <<"faculty", "total_faculty", "teaching_staff">>
      [] field_name = "student_count" -> <<"students", "total_students", "total_intake",
                                           "admitted_students">>
      [] field_name = "built_up_area" -> <<"area", "total_area", "building_area",
                                           "built_up_area_sqm">>
      [] field_name = "classrooms" -> <<"classroom_count", "number_of_classrooms",
                                        "total_classrooms">>
      [] field_name = "library_area" -> <<"library_size", "library_space",
                                          "library_area_sqm">>
      [] field_name = "digital_resources" -> <<"digital_library_resources">>
      [] field_name = "hostel_capacity" -> <<"hostel">>
      [] field_name = "placement_rate" -> <<"placement_percentage", "placement_ratio">>
      [] field_name = "total_labs" -> <<"lab_count", "labs", "laboratories">>
      [] OTHER -> << >>

\* EvidenceTracker.get_evidence_for_field: the record, or {} (None) when not found;
\* aliases is a list of names or None
get_evidence_for_field(field_name, evidence_map_, aliases) ==
    IF field_name \in DOMAIN evidence_map_ THEN evidence_map_[field_name]
    ELSE IF Truthy(aliases) /\ ~IsNone(FirstRecorded(evidence_map_, aliases[2]))
    THEN FirstRecorded(evidence_map_, aliases[2])
    ELSE FirstRecorded(evidence_map_, common_aliases(field_name))

\* the validation that accepts a snippet or a source document alone
validate_evidence_either(value, evidence) ==
    IF IsNone(value) THEN [is_valid |-> TRUE, error_message |-> None]
    ELSE IF evidence = EmptyDict
    THEN [is_valid |-> FALSE, error_message |-> Str("has no evidence")]
    ELSE IF ~Truthy(Get(evidence, "snippet")) /\ ~Truthy(Get(evidence, "source_doc"))
    THEN [is_valid |-> FALSE, error_message |-> Str("has no evidence snippet")]
    ELSE [is_valid |-> TRUE, error_message |-> None]

\* EvidenceTracker.validate_evidence: (is_valid, error_message); evidence is a dict
validate_evidence(value, evidence) ==
    IF IsNone(value) THEN [is_valid |-> TRUE, error_message |-> None]
    ELSE IF evidence = EmptyDict
    THEN [is_valid |-> FALSE, error_message |-> Str("has no evidence")]
    ELSE IF ~Truthy(Get(evidence, "snippet"))
    THEN [is_valid |-> FALSE, error_message |-> Str("has no evidence snippet")]
    ELSE IF ~Truthy(Get(evidence, "source_doc"))
    THEN [is_valid |-> FALSE, error_message |-> Str("has no source document")]
    ELSE [is_valid |-> TRUE, error_message |-> None]

\* first pass over one block: the numeric *_num fields, the larger value kept, and
\* the area fields folded into built_up_area_sqm_num
RECURSIVE NumPass(_, _, _)
NumPass(aggregated, extracted_data, keys) ==
    IF keys = << >> THEN aggregated
    ELSE LET key   == Head(keys)
             value == extracted_data[key]
             kept  == IF key \notin DOMAIN aggregated THEN value
                      ELSE IF IsNum(aggregated[key])
                      THEN Num(Max(Val(aggregated[key]), Val(value)))
                      ELSE value
             a1    == Put(aggregated, key, kept)
             a2    == IF key \in {"built_up_area_num", "area_num", "total_area_num",
                                  "campus_area_num", "building_area_num"}
                      THEN Put(a1, "built_up_area_sqm_num",
                               IF "built_up_area_sqm_num" \notin DOMAIN a1 THEN value
                               ELSE Num(Max(Val(a1["built_up_area_sqm_num"]), Val(value))))
                      ELSE a1
         IN  IF IsNumKey(key) /\ IsNum(value)
             THEN NumPass(a2, extracted_data, Tail(keys))
             ELSE NumPass(aggregated, extracted_data, Tail(keys))

\* parse_numeric(x) or 0
NumOrZero(x) == LET n == parse_numeric(x) IN IF Truthy(n) THEN Val(n) ELSE 0

\* second pass, one raw field: alias mapping, the parsed *_num value preferred, the
\* larger of two numbers kept
RawField(aggregated, extracted_data, key) ==
    LET value      == extracted_data[key]
        target_key == IF key = "total_faculty" THEN "faculty_count"
                      ELSE IF key \in {"total_intake", "admitted_students"}
                              /\ "student_count" \notin DOMAIN aggregated
                      THEN "student_count"
                      ELSE key
        num_key    == NumKey(key)
    IN  IF ~IsNone(Get(extracted_data, num_key))
        THEN LET new_val == extracted_data[num_key]
             IN  IF target_key \notin DOMAIN aggregated \/ ~IsNum(aggregated[target_key])
                 THEN Put(Put(aggregated, target_key, new_val), NumKey(target_key), new_val)
                 ELSE IF IsNum(new_val)
                 THEN LET max_val == Num(Max(Val(aggregated[target_key]), Val(new_val)))
                      IN  Put(Put(aggregated, target_key, max_val),
                              NumKey(target_key), max_val)
                 ELSE aggregated
        ELSE IF target_key \in DOMAIN aggregated
        THEN LET current_val == NumOrZero(aggregated[target_key])
                 new_val     == NumOrZero(value)
             IN  IF current_val > 0 \/ new_val > 0
                 THEN Put(Put(aggregated, target_key, Num(Max(current_val, new_val))),
                          NumKey(target_key), Num(Max(current_val, new_val)))
                 ELSE Put(aggregated, target_key,
                          IF Truthy(value) THEN value ELSE aggregated[target_key])
        ELSE LET parsed == parse_numeric(value)
             IN  IF IsNone(parsed) THEN Put(aggregated, target_key, value)
                 ELSE Put(Put(aggregated, target_key, value), NumKey(target_key), parsed)

RECURSIVE RawPass(_, _, _)
RawPass(aggregated, extracted_data, keys) ==
    IF keys = << >> THEN aggregated
    ELSE IF IsNumKey(Head(keys)) \/ IsNone(extracted_data[Head(keys)])
    THEN RawPass(aggregated, extracted_data, Tail(keys))
    ELSE RawPass(RawField(aggregated, extracted_data, Head(keys)), extracted_data,
                 Tail(keys))

\* KPIService._aggregate_block_data: invalid blocks are skipped
RECURSIVE _aggregate_block_data(_)
_aggregate_block_data(blocks) ==
    IF blocks = << >> THEN EmptyDict
    ELSE LET block      == blocks[Len(blocks)]
             aggregated == _aggregate_block_data(SubSeq(blocks, 1, Len(blocks) - 1))
             keys       == Keys(block.extracted_data)
         IN  IF block.is_invalid \/ block.extracted_data = EmptyDict THEN aggregated
             ELSE RawPass(NumPass(aggregated, block.extracted_data, keys),
                          block.extracted_data, keys)

\* ------------------------------------------------------------------------
\* KPI evaluation of one mode (services/kpi.py, config/rules.py)
\* ------------------------------------------------------------------------
\* get_kpi_formulas: the KPI ids of the mode, in the order of KPI_FORMULAS; a mode
\* without an entry has none
get_kpi_formulas(mode) ==
    CASE Lower(mode) = "aicte" -> AicteKeys
      [] Lower(mode) = "naac" -> <<"criterion_1", "criterion_2", "criterion_3",
                                   "criterion_4", "criterion_5", "criterion_6",
                                   "criterion_7">>
      [] Lower(mode) = "nirf" -> <<"tlr", "rp", "go", "oi", "pr">>
      [] Lower(mode) = "nba" -> <<"peos_psos", "faculty_quality", "student_performance",
                                  "continuous_improvement", "co_po_mapping">>
      [] OTHER -> << >>

\* the NBA methods OfficialKPIService defines
OfficialNbaMethods == {"calculate_nba_peos_psos", "calculate_nba_faculty_quality"}

\* the method of the official service calculate_kpis calls for a KPI of the NBA mode
NbaMethod(kpi_id) ==
    CASE kpi_id = "peos_psos" -> "calculate_nba_peos_psos"
      [] kpi_id = "faculty_quality" -> "calculate_nba_faculty_quality"
      [] kpi_id = "student_performance" -> "calculate_nba_student_performance"
      [] kpi_id = "continuous_improvement" -> "calculate_nba_continuous_improvement"
      [] kpi_id = "co_po_mapping" -> "calculate_nba_co_po_mapping"

\* calculate_kpis raises AttributeError when the loop reaches a KPI whose method
\* the official service does not define
calculate_kpis_raises(mode) ==
    /\ Lower(mode) = "nba"
    /\ \E kpi_id \in Elems(get_kpi_formulas(mode)) :
          NbaMethod(kpi_id) \notin OfficialNbaMethods

\* criterion_weights of calculate_kpis, in hundredths
NaacCriterionWeights ==
    <<<<"criterion_1", 15>>, <<"criterion_2", 15>>, <<"criterion_3", 15>>,
      <<"criterion_4", 15>>, <<"criterion_5", 15>>, <<"criterion_6", 15>>,
      <<"criterion_7", 10>>>>

\* parameter_weights of calculate_kpis, in hundredths
NirfParameterWeights ==
    <<<<"tlr", 30>>, <<"rp", 30>>, <<"go", 20>>, <<"oi", 10>>, <<"pr", 10>>>>

\* the score the official service returns for one KPI of the mode
KpiScore(mode, kpi_id, extracted_data, em) ==
    CASE Lower(mode) = "aicte" ->
            (CASE kpi_id = "fsr_score" -> calculate_aicte_fsr(extracted_data, em).score
               [] kpi_id = "infrastructure_score" ->
                      calculate_aicte_infrastructure(extracted_data, em).score
               [] kpi_id = "placement_index" ->
                      calculate_aicte_placement(extracted_data, em).score
               [] kpi_id = "lab_compliance_index" ->
                      calculate_aicte_lab_compliance(extracted_data, em).score)
      [] Lower(mode) = "naac" -> calculate_naac_criterion(kpi_id, extracted_data, em)
      [] Lower(mode) = "nirf" -> calculate_nirf_parameter(kpi_id, extracted_data, em)

\* "value": score if score is None else round(score, 2)
KpiValue(score) == IF IsNone(score) THEN None ELSE Num(Round2(Rat(Val(score), 100)))

\* KPIService.calculate_kpis: (extracted_data, evidence_map, kpi_results); blocks and
\* aggregated_data are empty when the caller passes None
calculate_kpis(mode, blocks, aggregated_data, tie_up) ==
    LET extracted_data ==
            IF aggregated_data # EmptyDict THEN aggregated_data
            ELSE IF blocks # << >> THEN _aggregate_block_data(blocks)
            ELSE EmptyDict
        em == IF blocks # << >> THEN build_evidence_map(blocks) ELSE EmptyDict
        formulas == get_kpi_formulas(mode)
        values == [k \in Elems(formulas) |->
                      KpiValue(KpiScore(mode, k, extracted_data, em))]
        overall ==
            CASE Lower(mode) = "aicte" -> calculate_aicte_overall(values, tie_up)
              [] Lower(mode) = "naac" ->
                     calculate_naac_overall(values, NaacCriterionWeights, tie_up)
              [] Lower(mode) = "nirf" ->
                     calculate_nirf_overall(values, NirfParameterWeights, tie_up)
              [] OTHER -> [score |-> None, included |-> << >>, excluded |-> << >>]
    IN  [extracted_data |-> extracted_data,
         evidence_map   |-> em,
         kpi_results    |-> [k \in Elems(formulas) \cup {"overall_score"} |->
                                IF k = "overall_score"
                                THEN [value |-> overall.score,
                                      included |-> overall.included,
                                      excluded |-> overall.excluded]
                                ELSE [value |-> values[k]]]]

\* ------------------------------------------------------------------------
\* Batch validity flag (utils/production_guard.py, services/production_guard.py)
\* ------------------------------------------------------------------------
\* marks a key a dict, or an attribute an object, does not hold
Absent == <<"absent">>

\* dict.get(key, default)
GetOr(d, k, default) == IF k \in DOMAIN d THEN d[k] ELSE default

\* utils ProductionGuard.mark_batch_invalid_if_needed: the reasons collected;
\* kpi_results and sufficiency_result are dicts or None
utils_reasons(kpi_results, sufficiency_result) ==
    (IF kpi_results # EmptyDict
     THEN IF Get(kpi_results, "overall_score") = None
          THEN <<"overall_score is null">> ELSE << >>
     ELSE <<"no KPI results">>)
    \o
    (IF sufficiency_result # EmptyDict
     THEN IF \/ GetOr(sufficiency_result, "percentage", Num(0)) = Num(0)
             \/ GetOr(sufficiency_result, "present_count", Num(0)) = Num(0)
          THEN <<"sufficiency is 0%">> ELSE << >>
     ELSE <<"no sufficiency result">>)

\* a guard that flips the flag of a batch with reasons instead of setting it
utils_mark_batch_invalid_if_needed_flip(batch, kpi_results, sufficiency_result) ==
    IF utils_reasons(kpi_results, sufficiency_result) # << >>
    THEN [batch |-> [batch EXCEPT !.is_invalid = 1 - batch.is_invalid], returned |-> TRUE]
    ELSE IF batch.is_invalid = 1
    THEN [batch |-> [batch EXCEPT !.is_invalid = 0], returned |-> FALSE]
    ELSE [batch |-> batch, returned |-> FALSE]

\* utils ProductionGuard.mark_batch_invalid_if_needed(batch, kpi_results,
\* sufficiency_result, db): the batch after the call and the value returned
utils_mark_batch_invalid_if_needed(batch, kpi_results, sufficiency_result) ==
    IF utils_reasons(kpi_results, sufficiency_result) # << >>
    THEN [batch |-> [batch EXCEPT !.is_invalid = 1], returned |-> TRUE]
    ELSE IF batch.is_invalid = 1
    THEN [batch |-> [batch EXCEPT !.is_invalid = 0], returned |-> FALSE]
    ELSE [batch |-> batch, returned |-> FALSE]

\* services ProductionGuard.mark_batch_invalid_if_needed(batch): the batch after
\* the call and the value returned; a batch without the sufficiency attribute
\* holds Absent for it
services_mark_batch_invalid_if_needed(batch) ==
    LET was_invalid == batch.is_invalid = 1
    IN  IF IsNone(batch.overall_score) \/ batch.overall_score = Num(0)
        THEN [batch |-> [batch EXCEPT !.is_invalid = 1], returned |-> ~was_invalid]
        ELSE IF /\ batch.sufficiency # Absent /\ ~IsNone(batch.sufficiency)
                /\ batch.sufficiency = Num(0)
        THEN [batch |-> [batch EXCEPT !.is_invalid = 1], returned |-> ~was_invalid]
        ELSE [batch |-> batch, returned |-> FALSE]

\* ------------------------------------------------------------------------
\* Inputs of the evaluations
\* ------------------------------------------------------------------------
MaxFaculty == 3

MaxStudents == 50

MaxGuardCount == 1

MaxPrograms == 2

\* the dict {k: v}; a None value is left out (d.get(k) is None either way)
Dict1(k, v) == IF IsNone(v) THEN EmptyDict ELSE (k :> v)

\* None or a count 0..max
Counts(max) == {None} \cup {Num(n) : n \in 0..max}

EvKinds == {Ev("", ""), Ev("snippet", ""), Ev("", "doc.pdf"), Ev("snippet", "doc.pdf")}

FullEvidence == Ev("snippet", "doc.pdf")

\* evidence maps that hold at most one record, under one of the keys
EvChoices(keys) == {EmptyDict} \cup {k :> e : k \in keys, e \in EvKinds}

FsrFacultyKeys == {"faculty_count_num", "faculty_count", "total_faculty", "faculty"}

FsrStudentKeys == {"student_count_num", "total_students_num", "total_intake_num",
                   "total_students", "student_count", "total_intake",
                   "admitted_students"}

ProgramChoices == {"intake" :> Num(0), "intake" :> Num(20), "students" :> Num(30),
                   "intake_2025_26" :> Text}

ProgramLists == UNION {[1..n -> ProgramChoices] : n \in 0..MaxPrograms}

\* fact sets and evidence maps handed to calculate_aicte_fsr
FsrInputs(max_faculty, max_students) ==
    \* every ratio, both inputs evidenced
    {[data |-> Dict1(fk, fv) @@ Dict1(sk, sv),
      evidence_map |-> ("faculty_count" :> FullEvidence) @@ ("student_count" :> FullEvidence)] :
        fk \in FsrFacultyKeys, fv \in Counts(max_faculty),
        sk \in FsrStudentKeys, sv \in Counts(max_students)}
    \cup
    \* every shape of evidence, small counts
    {[data |-> Dict1(fk, fv) @@ Dict1(sk, sv), evidence_map |-> fe @@ se] :
        fk \in FsrFacultyKeys, fv \in Counts(MaxGuardCount),
        sk \in FsrStudentKeys, sv \in Counts(MaxGuardCount),
        fe \in EvChoices({"faculty_count", "total_faculty"}),
        se \in EvChoices({"student_count", "total_students"})}
    \cup
    \* no student count: the programs_approved fallback
    {[data |-> ("faculty_count_num" :> Num(1)) @@ ("programs_approved" :> List(pl)),
      evidence_map |-> ("faculty_count" :> FullEvidence) @@ se] :
        pl \in ProgramLists,
        se \in EvChoices({"student_count", "total_students"})}

MaxPlaced == 3

MaxRate == 2

MaxLabs == 6

PlacementRateKeys == {"placement_rate_num", "placement_percentage", "placement_rate"}

PlacedKeys == {"students_placed_num", "total_placements_num", "students_placed",
               "total_placements"}

EligibleKeys == {"students_eligible_num", "student_count_num", "total_students_num",
                 "students_eligible", "total_students", "student_count"}

\* fact sets and evidence maps handed to calculate_aicte_placement
PlacementInputs(max_placed) ==
    \* placed / eligible, both evidenced
    {[data |-> Dict1(pk, pv) @@ Dict1(ek, ev),
      evidence_map |-> ("students_placed" :> FullEvidence)
                       @@ ("students_eligible" :> FullEvidence)] :
        pk \in PlacedKeys, pv \in Counts(max_placed),
        ek \in EligibleKeys, ev \in Counts(max_placed)}
    \cup
    \* every shape of evidence, small counts
    {[data |-> Dict1(pk, pv) @@ Dict1("students_eligible_num", ev),
      evidence_map |-> pe @@ ee] :
        pk \in {"students_placed_num", "students_placed"}, pv \in Counts(MaxGuardCount),
        ev \in Counts(MaxGuardCount),
        pe \in EvChoices({"students_placed", "total_placements"}),
        ee \in EvChoices({"students_eligible", "total_students", "student_count"})}
    \cup
    \* a directly supplied rate of 0, 75, 150, ... percent
    {[data |-> Dict1(rk, rv) @@ Dict1("students_placed_num", pv)
               @@ Dict1("students_eligible_num", Num(2)),
      evidence_map |-> re @@ ("students_placed" :> FullEvidence)
                       @@ ("students_eligible" :> FullEvidence)] :
        rk \in PlacementRateKeys, rv \in {Num(75 * n) : n \in 0..MaxRate},
        pv \in Counts(MaxGuardCount),
        re \in EvChoices({"placement_rate"})}

LabKeys == {"total_labs_num", "total_labs", "lab_count"}

LabStudentKeys == {"student_count_num", "total_students_num", "total_students",
                   "student_count"}

\* fact sets and evidence maps handed to calculate_aicte_lab_compliance
LabInputs(max_labs) ==
    \* a supplied number of required labs
    {[data |-> Dict1(lk, lv) @@ Dict1(rk, rv), evidence_map |-> le @@ re] :
        lk \in LabKeys, lv \in Counts(max_labs),
        rk \in {"required_labs_num", "required_labs"}, rv \in Counts(max_labs),
        le \in {EmptyDict, "total_labs" :> FullEvidence, "lab_count" :> FullEvidence},
        re \in {EmptyDict, "required_labs" :> FullEvidence}}
    \cup
    \* required labs estimated from 0, 100, 200, ... students
    {[data |-> Dict1("total_labs_num", lv) @@ Dict1(sk, sv), evidence_map |-> le] :
        lv \in Counts(max_labs),
        sk \in LabStudentKeys, sv \in {None} \cup {Num(100 * n) : n \in 0..max_labs},
        le \in EvChoices({"total_labs", "lab_count"})}

\* arguments of calculate_co_attainment: counts, and no, an empty or a real
\* evidence document id
CoAttainmentInputs(max_students) ==
    [total_students : Counts(max_students), students_above_threshold : Counts(max_students),
     evidence_doc_id : {None, Str(""), Str("doc.pdf")}]

\* ------------------------------------------------------------------------
\* Evaluation of one ratio formula of the AICTE library or of the NBA engine
\* ------------------------------------------------------------------------
InitRatio ==
    /\ \/ /\ \E f \in {"fsr", "placement", "lab_compliance"} :
              /\ fn = f
              /\ \E in \in (CASE f = "fsr" -> FsrInputs(MaxFaculty, MaxStudents)
                              [] f = "placement" -> PlacementInputs(MaxPlaced)
                              [] f = "lab_compliance" -> LabInputs(MaxLabs)) :
                   /\ data = in.data
                   /\ evidence_map = in.evidence_map
          /\ arg = None
       \/ /\ fn = "co_attainment"
          /\ arg \in CoAttainmentInputs(MaxPlaced)
          /\ data = EmptyDict
          /\ evidence_map = EmptyDict
    /\ ret = None
    /\ pc = "ready"

CallFsr ==
    /\ pc = "ready" /\ fn = "fsr"
    /\ ret' = calculate_aicte_fsr(data, evidence_map)
    /\ pc' = "done"
    /\ UNCHANGED <<fn, data, evidence_map, arg>>

CallPlacement ==
    /\ pc = "ready" /\ fn = "placement"
    /\ ret' = calculate_aicte_placement(data, evidence_map)
    /\ pc' = "done"
    /\ UNCHANGED <<fn, data, evidence_map, arg>>

CallLabCompliance ==
    /\ pc = "ready" /\ fn = "lab_compliance"
    /\ ret' = calculate_aicte_lab_compliance(data, evidence_map)
    /\ pc' = "done"
    /\ UNCHANGED <<fn, data, evidence_map, arg>>

\* the attainment is returned in the score field, like the scores of the library
CallCoAttainment ==
    /\ pc = "ready" /\ fn = "co_attainment"
    /\ ret' = [score |-> calculate_co_attainment(arg.total_students,
                                                 arg.students_above_threshold,
                                                 arg.evidence_doc_id),
               info |-> "co_attainment"]
    /\ pc' = "done"
    /\ UNCHANGED <<fn, data, evidence_map, arg>>

NextRatio == CallFsr \/ CallPlacement \/ CallLabCompliance \/ CallCoAttainment

SpecRatio == InitRatio /\ [][NextRatio]_vars

\* ------------------------------------------------------------------------
\* Evaluation of the AICTE infrastructure score
\* ------------------------------------------------------------------------
MaxInfraUnits == 2

InfraBig == 1000

\* a student count below, near and above one classroom of 40
InfraStudentVals == {1, 7, 41}

\* None, a few units, and a quantity far above every per-student norm
InfraVals == {None} \cup {Num(n) : n \in 0..MaxInfraUnits} \cup {Num(InfraBig)}

InfraStudentKeys == {"total_students_num", "student_count_num", "total_intake_num",
                     "total_students", "student_count", "total_intake"}

InfraAreaKeys == {"built_up_area_sqm_num", "built_up_area_num", "built_up_area"}

InfraFullEvidence ==
    ("total_students" :> FullEvidence) @@ ("built_up_area" :> FullEvidence)
    @@ ("classrooms" :> FullEvidence)

\* fact sets and evidence maps handed to calculate_aicte_infrastructure
InfraInputs(student_vals, vals) ==
    \* every combination of the five quantities, the gated ones evidenced
    {[data |-> Dict1("total_students_num", Num(sv)) @@ Dict1("built_up_area_sqm_num", av)
               @@ Dict1("total_classrooms", cv) @@ Dict1("library_area_sqm", lv)
               @@ Dict1("digital_library_resources", dv)
               @@ Dict1("digital_library_systems", dy) @@ Dict1("hostel_capacity", hv),
      evidence_map |-> InfraFullEvidence] :
        sv \in student_vals, av \in vals, cv \in vals, lv \in vals,
        dv \in vals, dy \in {None, Text}, hv \in vals}
    \cup
    \* every key and every shape of evidence of the student count
    {[data |-> Dict1(sk, sv) @@ Dict1("built_up_area_sqm_num", Num(5))
               @@ Dict1("total_classrooms", Num(1)),
      evidence_map |-> se @@ ("built_up_area" :> FullEvidence)
                       @@ ("classrooms" :> FullEvidence)] :
        sk \in InfraStudentKeys, sv \in {None, Num(0), Num(7)},
        se \in EvChoices({"total_students", "student_count", "total_intake"})}
    \cup
    \* every key and every shape of evidence of the area and the classrooms
    {[data |-> Dict1("total_students_num", Num(7)) @@ Dict1(ak, Num(5))
               @@ Dict1(ck, Num(1)) @@ Dict1(lk, Num(2)) @@ Dict1(dk, dv),
      evidence_map |-> ("total_students" :> FullEvidence) @@ ae @@ ce] :
        ak \in InfraAreaKeys, ck \in {"total_classrooms", "classrooms"},
        lk \in {"library_area_sqm", "library_area"},
        dk \in {"digital_resources", "has_digital_library"}, dv \in {Num(0), Num(250)},
        ae \in EvChoices({"built_up_area", "built_up_area_sqm"}),
        ce \in EvChoices({"classrooms", "total_classrooms"})}
    \cup
    \* the library, the digital resources and the hostel with and without a record
    {[data |-> Dict1("total_students_num", Num(7)) @@ Dict1("library_area_sqm", lv)
               @@ Dict1("digital_library_resources", dv)
               @@ Dict1("digital_library_systems", dy) @@ Dict1("hostel_capacity", hv),
      evidence_map |-> ("total_students" :> FullEvidence) @@ le @@ de @@ he] :
        lv \in {None, Num(2)}, dv \in {None, Num(250)}, dy \in {None, Text},
        hv \in {None, Num(1)},
        le \in {EmptyDict, "library_area" :> FullEvidence},
        de \in {EmptyDict, "digital_library_resources" :> FullEvidence,
                "digital_library_systems" :> FullEvidence},
        he \in {EmptyDict, "hostel_capacity" :> FullEvidence}}

InitInfra ==
    /\ fn = "infrastructure"
    /\ \E in \in InfraInputs(InfraStudentVals, InfraVals) :
          data = in.data /\ evidence_map = in.evidence_map
    /\ arg = None
    /\ ret = None
    /\ pc = "ready"

CallInfrastructure ==
    /\ pc = "ready" /\ fn = "infrastructure"
    /\ ret' = calculate_aicte_infrastructure(data, evidence_map)
    /\ pc' = "done"
    /\ UNCHANGED <<fn, data, evidence_map, arg>>

NextInfra == CallInfrastructure

SpecInfra == InitInfra /\ [][NextInfra]_vars

\* ------------------------------------------------------------------------
\* Evaluation of one overall-score aggregation or of the perception parameter
\* ------------------------------------------------------------------------
MaxScoreStep == 0
MaxGradeStep == 1

\* KPI and parameter scores, in hundredths of a point
ScoreVals == {7000, 7500, 8000, 8500} \cup {8667 + 1333 * k : k \in 0..MaxScoreStep}

\* NAAC criterion grades, in hundredths of a grade point
GradeVals == {400 - 67 * k : k \in 0..MaxGradeStep}

\* every dict over the keys whose entries are absent, None or one of the values
RECURSIVE ScoreDicts(_, _)
ScoreDicts(keys, vals) ==
    IF keys = {} THEN {EmptyDict}
    ELSE LET k == CHOOSE x \in keys : TRUE
         IN  { IF e = Absent THEN d ELSE (k :> e) @@ d :
               e \in {Absent, None} \cup {Num(v) : v \in vals},
               d \in ScoreDicts(keys \ {k}, vals) }

\* perception survey answers: each absent or a score
RECURSIVE PerceptionDicts(_)
PerceptionDicts(keys) ==
    IF keys = {} THEN {EmptyDict}
    ELSE LET k == CHOOSE x \in keys : TRUE
         IN  { IF e = Absent THEN d ELSE (k :> e) @@ d :
               e \in {Absent, Num(8000), Num(9050)},
               d \in PerceptionDicts(keys \ {k}) }

PrInputs ==
    { [has_perception_survey |-> h, perception_data |-> p, evidence_doc_ids |-> e] :
      h \in BOOLEAN,
      p \in PerceptionDicts({"peer_perception", "employer_perception",
                             "academic_perception"}),
      e \in {<< >>, <<"doc-1">>} }

\* every dict that holds one of the values under each of the keys
KnownDicts(keys, vals) == [keys -> {Num(v) : v \in vals}]

\* AICTE: every mix of absent, None and scores. NAAC: every pattern of absent, None
\* and known criteria, and every complete assignment of grades. NIRF: every pattern
\* of absent, None and known parameters, and every assignment of scores to the four
\* required parameters with PR absent, None or known.
AggregateInputs(score_vals, grade_vals) ==
    { [fn |-> "aicte_overall", arg |-> a] :
      a \in ScoreDicts({"fsr_score", "infrastructure_score", "placement_index",
                        "lab_compliance_index"}, score_vals) }
    \cup { [fn |-> "naac_cgpa", arg |-> a] :
           a \in ScoreDicts({"C1", "C2", "C3", "C4", "C5", "C6", "C7"}, {333})
                 \cup KnownDicts({"C1", "C2", "C3", "C4", "C5", "C6", "C7"}, grade_vals) }
    \cup { [fn |-> "nirf_overall", arg |-> a] :
           a \in ScoreDicts({"TLR", "RP", "GO", "OI", "PR"}, {8000})
                 \cup { r @@ p : r \in KnownDicts({"TLR", "RP", "GO", "OI"}, score_vals),
                                 p \in ScoreDicts({"PR"}, score_vals) } }
    \cup { [fn |-> "nirf_pr", arg |-> a] : a \in PrInputs }

InitAggregate ==
    /\ \E in \in AggregateInputs(ScoreVals, GradeVals) : fn = in.fn /\ arg = in.arg
    /\ data = EmptyDict
    /\ evidence_map = EmptyDict
    /\ ret = None
    /\ pc = "ready"

CallAicteOverall ==
    /\ pc = "ready" /\ fn = "aicte_overall"
    /\ \E tie_up \in BOOLEAN : ret' = calculate_aicte_overall(arg, tie_up)
    /\ pc' = "done"
    /\ UNCHANGED <<fn, data, evidence_map, arg>>

CallCgpa ==
    /\ pc = "ready" /\ fn = "naac_cgpa"
    /\ \E tie_up \in BOOLEAN : ret' = calculate_cgpa(arg, tie_up)
    /\ pc' = "done"
    /\ UNCHANGED <<fn, data, evidence_map, arg>>

CallNirfOverall ==
    /\ pc = "ready" /\ fn = "nirf_overall"
    /\ \E tie_up \in BOOLEAN : ret' = calculate_overall_score(arg, tie_up)
    /\ pc' = "done"
    /\ UNCHANGED <<fn, data, evidence_map, arg>>

CallNirfPr ==
    /\ pc = "ready" /\ fn = "nirf_pr"
    /\ \E tie_up \in BOOLEAN :
           ret' = calculate_pr(arg.has_perception_survey, arg.perception_data,
                               arg.evidence_doc_ids, tie_up)
    /\ pc' = "done"
    /\ UNCHANGED <<fn, data, evidence_map, arg>>

NextAggregate == CallAicteOverall \/ CallCgpa \/ CallNirfOverall \/ CallNirfPr

SpecAggregate == InitAggregate /\ [][NextAggregate]_vars

\* ------------------------------------------------------------------------
\* Evaluation of the KPIs of one mode
\* ------------------------------------------------------------------------
MaxBlocks == 2

\* the merge of one fragment per group, earlier groups first
RECURSIVE Merges(_)
Merges(groups) ==
    IF groups = << >> THEN {EmptyDict}
    ELSE {f @@ d : f \in Head(groups), d \in Merges(Tail(groups))}

\* facts bearing on one NAAC criterion each: none, or one of two fragments
NaacFacts ==
    << {EmptyDict,
        "curriculum_design" :> Obj,
        ("curriculum_planning" :> Text) @@ ("elective_courses" :> List(<<Obj>>))},
       {EmptyDict,
        "teaching_learning_process" :> Obj,
        ("student_enrolment" :> Num(400)) @@ ("assessment_methods" :> Text)},
       {EmptyDict,
        "research_publications" :> Num(25),
        ("publications" :> Num(60)) @@ ("funded_projects" :> Num(3))},
       {EmptyDict,
        "built_up_area" :> Num(5000),
        ("library_volumes" :> Num(20000)) @@ ("computer_labs" :> Obj)},
       {EmptyDict,
        "student_support_services" :> Obj,
        ("graduation_rate" :> Num(90)) @@ ("student_participation" :> Num(100))
            @@ ("total_students" :> Num(400))},
       {EmptyDict,
        "governance_structure" :> Obj,
        "leadership_team" :> Text},
       {EmptyDict,
        "best_practices" :> Text,
        ("institutional_values" :> Obj) @@ ("innovative_practices" :> Obj)} >>

\* facts bearing on one NIRF parameter each, and a survey flag (True, which is 1)
NirfFacts ==
    << {EmptyDict,
        "financial_resources" :> Num(5),
        ("library_books" :> Num(20000)) @@ ("total_students" :> Num(1500))
            @@ ("faculty_count" :> Num(100))},
       {EmptyDict,
        "research_publications" :> Num(40),
        ("citation_count" :> Num(250)) @@ ("patents" :> Num(3))},
       {EmptyDict,
        "placement_rate" :> Num(85),
        ("pass_percentage" :> Num(92)) @@ ("higher_studies_count" :> Num(30))},
       {EmptyDict,
        "outreach_activities" :> Num(4),
        ("women_students" :> Num(300)) @@ ("sc_st_students" :> Num(100))
            @@ ("student_count" :> Num(1000))},
       {EmptyDict,
        "peer_perception" :> Num(80),
        ("peer_ranking" :> Num(75)) @@ ("employer_rating" :> Num(70))
            @@ ("public_perception" :> Num(120))},
       {EmptyDict,
        "has_perception_survey" :> Num(1)} >>

AicteFacts ==
    << {EmptyDict,
        ("faculty_count_num" :> Num(10)) @@ ("student_count_num" :> Num(150))},
       {EmptyDict,
        "placement_rate_num" :> Num(85),
        "available_labs_num" :> Num(4)} >>

\* what the blocks of a batch of the mode hold
BlockFacts(mode) ==
    CASE Lower(mode) = "aicte" ->
            { ("faculty_count" :> Num(10)) @@ ("faculty_count_num" :> Num(10))
                  @@ ("student_count" :> Num(150)) @@ ("student_count_num" :> Num(150)),
              ("total_faculty" :> Num(12)) @@ ("total_intake" :> Num(200)),
              ("built_up_area" :> Num(5000)) @@ ("built_up_area_num" :> Num(5000)) }
      [] Lower(mode) = "naac" ->
            { ("curriculum_design" :> Obj) @@ ("research_publications" :> Num(25))
                  @@ ("best_practices" :> Text),
              ("student_support_services" :> Obj) @@ ("governance_structure" :> Obj)
                  @@ ("built_up_area" :> Num(5000))
                  @@ ("teaching_learning_process" :> Obj),
              ("total_faculty" :> Num(12)) @@ ("total_intake" :> Num(200)) }
      [] Lower(mode) = "nirf" ->
            { ("peer_perception" :> Num(80)) @@ ("employer_rating" :> Num(70)),
              ("financial_resources" :> Num(5)) @@ ("placement_rate" :> Num(85))
                  @@ ("outreach_activities" :> Num(4))
                  @@ ("research_publications" :> Num(40)),
              ("faculty_count" :> Num(10)) @@ ("faculty_count_num" :> Num(10))
                  @@ ("student_count" :> Num(150)) @@ ("student_count_num" :> Num(150)) }
      [] OTHER ->
            { ("total_faculty" :> Num(12)) @@ ("total_intake" :> Num(200)) }

\* a block is valid with evidence, valid without evidence, or invalid
Blocks(mode) ==
    { [is_invalid |-> k[1], extracted_data |-> d, evidence_snippet |-> k[2],
       source_doc |-> k[2]] :
      d \in BlockFacts(mode),
      k \in {<<FALSE, "report.pdf">>, <<FALSE, "">>, <<TRUE, "report.pdf">>} }

\* the lists of at most n blocks
RECURSIVE BlockLists(_, _)
BlockLists(mode, n) ==
    IF n = 0 THEN {<< >>}
    ELSE LET shorter == BlockLists(mode, n - 1)
         IN  shorter \cup {Append(bs, b) : bs \in {l \in shorter : Len(l) = n - 1},
                                            b \in Blocks(mode)}

\* calls with aggregated facts, and calls with at most max_blocks blocks
KpiInputs(max_blocks) ==
    { [mode |-> "naac", blocks |-> << >>, aggregated_data |-> d] : d \in Merges(NaacFacts) }
    \cup { [mode |-> "nirf", blocks |-> << >>, aggregated_data |-> d] :
           d \in Merges(NirfFacts) }
    \cup { [mode |-> "aicte", blocks |-> << >>, aggregated_data |-> d] :
           d \in Merges(AicteFacts) }
    \cup UNION { { [mode |-> m, blocks |-> bs, aggregated_data |-> EmptyDict] :
                   bs \in BlockLists(m, max_blocks) } :
                 m \in {"aicte", "NAAC", "nirf", "ugc", "nba", "NBA"} }

InitKpis ==
    /\ fn = "calculate_kpis"
    /\ arg \in KpiInputs(MaxBlocks)
    /\ data = EmptyDict
    /\ evidence_map = EmptyDict
    /\ ret = None
    /\ pc = "ready"

CallCalculateKpis ==
    /\ pc = "ready" /\ fn = "calculate_kpis"
    /\ IF calculate_kpis_raises(arg.mode)
       THEN /\ pc' = "raised"
            /\ UNCHANGED <<data, evidence_map, ret>>
       ELSE /\ \E tie_up \in BOOLEAN :
                 LET out == calculate_kpis(arg.mode, arg.blocks, arg.aggregated_data,
                                           tie_up)
                 IN  /\ data' = out.extracted_data
                     /\ evidence_map' = out.evidence_map
                     /\ ret' = out.kpi_results
            /\ pc' = "done"
    /\ UNCHANGED <<fn, arg>>

NextKpis == CallCalculateKpis

SpecKpis == InitKpis /\ [][NextKpis]_vars

\* ------------------------------------------------------------------------
\* Evaluation of the evidence tracker
\* ------------------------------------------------------------------------
\* what a block holds: nothing, or a faculty count that is None, "" or a number,
\* alone or next to a second field
EvidenceBlockData ==
    {EmptyDict, "faculty_count" :> None, "faculty_count" :> Str(""),
     "faculty_count" :> Num(5), "total_faculty" :> Num(7),
     ("faculty_count" :> Num(5)) @@ ("total_faculty" :> Num(7))}

\* a block without evidence, and blocks of two different documents
EvidenceBlocks ==
    { [is_invalid |-> FALSE, extracted_data |-> d, evidence_snippet |-> k[1],
       source_doc |-> k[2]] :
      d \in EvidenceBlockData,
      k \in {<<"", "">>, <<"Faculty: 5", "a.pdf">>, <<"Teaching staff", "b.pdf">>} }

\* the lists of at most n blocks
RECURSIVE EvidenceBlockLists(_)
EvidenceBlockLists(n) ==
    IF n = 0 THEN {<< >>}
    ELSE LET shorter == EvidenceBlockLists(n - 1)
         IN  shorter \cup {Append(bs, b) : bs \in {l \in shorter : Len(l) = n - 1},
                                            b \in EvidenceBlocks}

\* the lookups: a field by its own name, through the common aliases, and through
\* aliases the caller supplies
EvidenceLookups ==
    { [field_name |-> "faculty_count", aliases |-> None],
      [field_name |-> "total_faculty", aliases |-> None],
      [field_name |-> "student_count", aliases |-> None],
      [field_name |-> "student_count", aliases |-> List(<<"faculty_count">>)] }

\* evidence dicts handed to validate_evidence: {}, and every mix of a missing, an
\* empty and a filled snippet and source document
EvidenceDicts ==
    { s_ @@ d_ : s_ \in {EmptyDict, "snippet" :> Str(""), "snippet" :> Str("Faculty: 5")},
                 d_ \in {EmptyDict, "source_doc" :> Str(""), "source_doc" :> Str("a.pdf"),
                         "page" :> Num(5)} }

InitEvidence ==
    /\ \/ /\ fn = "get_evidence_for_field"
          /\ \E bs \in EvidenceBlockLists(MaxBlocks), lookup \in EvidenceLookups :
                arg = [blocks |-> bs, field_name |-> lookup.field_name,
                       aliases |-> lookup.aliases]
       \/ /\ fn = "validate_evidence"
          /\ \E value \in {None, Num(0), Num(100), Str(""), Text},
                evidence \in EvidenceDicts :
                arg = [value |-> value, evidence |-> evidence]
    /\ data = EmptyDict
    /\ evidence_map = EmptyDict
    /\ ret = None
    /\ pc = "ready"

\* build_evidence_map over the blocks, then the lookup of one field in the map
CallGetEvidenceForField ==
    /\ pc = "ready" /\ fn = "get_evidence_for_field"
    /\ evidence_map' = build_evidence_map(arg.blocks)
    /\ ret' = get_evidence_for_field(arg.field_name, evidence_map', arg.aliases)
    /\ pc' = "done"
    /\ UNCHANGED <<fn, data, arg>>

CallValidateEvidence ==
    /\ pc = "ready" /\ fn = "validate_evidence"
    /\ ret' = validate_evidence(arg.value, arg.evidence)
    /\ pc' = "done"
    /\ UNCHANGED <<fn, data, evidence_map, arg>>

NextEvidence == CallGetEvidenceForField \/ CallValidateEvidence

SpecEvidence == InitEvidence /\ [][NextEvidence]_vars

\* ------------------------------------------------------------------------
\* Evaluation of the fact aggregation over blocks (services/kpi.py)
\* ------------------------------------------------------------------------
\* what a block holds for the faculty count: the raw form, the _num form or both
FieldForms(v) ==
    { "faculty_count" :> Num(v),
      "faculty_count_num" :> Num(v),
      ("faculty_count" :> Num(v)) @@ ("faculty_count_num" :> Num(v)) }

\* blocks, valid and flagged invalid, that hold the faculty count in one of its
\* forms, or hold another field only
FieldBlocks ==
    { [is_invalid |-> i, extracted_data |-> d, evidence_snippet |-> "Faculty",
       source_doc |-> "report.pdf"] :
      i \in BOOLEAN,
      d \in FieldForms(10) \cup FieldForms(12) \cup {"student_count" :> Num(150)} }

\* the lists of at most n such blocks
RECURSIVE FieldBlockLists(_)
FieldBlockLists(n) ==
    IF n = 0 THEN {<< >>}
    ELSE LET shorter == FieldBlockLists(n - 1)
         IN  shorter \cup {Append(bs, b) : bs \in {l \in shorter : Len(l) = n - 1},
                                            b \in FieldBlocks}

InitBlocks ==
    /\ fn = "_aggregate_block_data"
    /\ arg \in FieldBlockLists(MaxBlocks)
    /\ data = EmptyDict
    /\ evidence_map = EmptyDict
    /\ ret = None
    /\ pc = "ready"

CallAggregateBlockData ==
    /\ pc = "ready" /\ fn = "_aggregate_block_data"
    /\ ret' = _aggregate_block_data(arg)
    /\ pc' = "done"
    /\ UNCHANGED <<fn, data, evidence_map, arg>>

NextBlocks == CallAggregateBlockData

SpecBlocks == InitBlocks /\ [][NextBlocks]_vars

\* ------------------------------------------------------------------------
\* calculate_kpis statement by statement (services/kpi.py)
\* ------------------------------------------------------------------------
\* a program order that calls the formulas before the evidence map is built
calculate_kpis_order_formulas_first ==
    <<"aggregate", "formulas", "build_evidence", "overall">>

\* the statements of calculate_kpis in program order: fact aggregation, the
\* evidence-map build, the loop over the formulas, the overall score
calculate_kpis_order == <<"aggregate", "build_evidence", "formulas", "overall">>

\* the statement after the given one, "done" after the last
StepAfter(step) ==
    LET i == CHOOSE j \in 1..Len(calculate_kpis_order) : calculate_kpis_order[j] = step
    IN  IF i = Len(calculate_kpis_order) THEN "done" ELSE calculate_kpis_order[i + 1]

\* extracted_data of calculate_kpis
KpisExtractedData(blocks, aggregated_data) ==
    IF aggregated_data # EmptyDict THEN aggregated_data
    ELSE IF blocks # << >> THEN _aggregate_block_data(blocks)
    ELSE EmptyDict

\* evidence_map of calculate_kpis
KpisEvidenceMap(blocks) ==
    IF blocks # << >> THEN build_evidence_map(blocks) ELSE EmptyDict

\* the overall score of the mode from the values of its KPIs
KpisOverall(mode, values, tie_up) ==
    CASE Lower(mode) = "aicte" -> calculate_aicte_overall(values, tie_up)
      [] Lower(mode) = "naac" ->
             calculate_naac_overall(values, NaacCriterionWeights, tie_up)
      [] Lower(mode) = "nirf" ->
             calculate_nirf_overall(values, NirfParameterWeights, tie_up)
      [] OTHER -> [score |-> None, included |-> << >>, excluded |-> << >>]

\* the KPI ids of the mode whose formula has not been called yet
KpisPending(mode, results) ==
    SelectSeq(get_kpi_formulas(mode), LAMBDA k : k \notin DOMAIN results)

InitKpiSteps ==
    /\ fn = "calculate_kpis"
    /\ arg \in {in \in KpiInputs(MaxBlocks) :
                  /\ ~calculate_kpis_raises(in.mode)
                  /\ in.blocks # << >> \/ Lower(in.mode) = "aicte"}
    /\ data = EmptyDict
    /\ evidence_map = EmptyDict
    /\ ret = EmptyDict
    /\ pc = Head(calculate_kpis_order)

\* lines 37-43
StepAggregate ==
    /\ pc = "aggregate"
    /\ data' = KpisExtractedData(arg.blocks, arg.aggregated_data)
    /\ pc' = StepAfter(pc)
    /\ UNCHANGED <<fn, arg, evidence_map, ret>>

\* lines 45-49
StepBuildEvidence ==
    /\ pc = "build_evidence"
    /\ evidence_map' = KpisEvidenceMap(arg.blocks)
    /\ pc' = StepAfter(pc)
    /\ UNCHANGED <<fn, arg, data, ret>>

\* lines 55-105: one pass of the loop calls the formula of the next KPI with the
\* fact set and the evidence map as they are now
StepFormula ==
    /\ pc = "formulas"
    /\ KpisPending(arg.mode, ret) # << >>
    /\ LET kpi_id == Head(KpisPending(arg.mode, ret))
       IN  ret' = ret @@ (kpi_id :>
                     [value |-> KpiValue(KpiScore(arg.mode, kpi_id, data, evidence_map))])
    /\ UNCHANGED <<fn, arg, data, evidence_map, pc>>

\* the loop ends when every formula has been called
StepLoopEnd ==
    /\ pc = "formulas"
    /\ KpisPending(arg.mode, ret) = << >>
    /\ pc' = StepAfter(pc)
    /\ UNCHANGED <<fn, arg, data, evidence_map, ret>>

\* lines 107-240
StepOverall ==
    /\ pc = "overall"
    /\ \E tie_up \in BOOLEAN :
          LET values  == [k \in Elems(get_kpi_formulas(arg.mode)) |->
                            IF k \in DOMAIN ret THEN ret[k].value ELSE None]
              overall == KpisOverall(arg.mode, values, tie_up)
          IN  ret' = [k \in Elems(get_kpi_formulas(arg.mode)) \cup {"overall_score"} |->
                        IF k = "overall_score"
                        THEN [value |-> overall.score, included |-> overall.included,
                              excluded |-> overall.excluded]
                        ELSE [value |-> values[k]]]
    /\ pc' = StepAfter(pc)
    /\ UNCHANGED <<fn, arg, data, evidence_map>>

NextKpiSteps ==
    StepAggregate \/ StepBuildEvidence \/ StepFormula \/ StepLoopEnd \/ StepOverall

SpecKpiSteps == InitKpiSteps /\ [][NextKpiSteps]_vars

\* ------------------------------------------------------------------------
\* Evaluation of the NAAC and NIRF dispatch by criterion id and parameter name
\* ------------------------------------------------------------------------
NaacCriterionIds ==
    {"criterion_1", "criterion_2", "criterion_3", "criterion_4", "criterion_5",
     "criterion_6", "criterion_7"}

NirfParameterNames == {"tlr", "rp", "go", "oi", "pr"}

\* ids handed to the dispatch: those of the framework, and ids outside it
DispatchIds(f) ==
    IF f = "calculate_naac_criterion"
    THEN NaacCriterionIds \cup {"criterion_8", "C1", "tlr", ""}
    ELSE NirfParameterNames \cup {"TLR", "PR", "perception", "criterion_1", ""}

InitDispatch ==
    /\ fn \in {"calculate_naac_criterion", "calculate_nirf_parameter"}
    /\ arg \in DispatchIds(fn)
    /\ data \in (IF fn = "calculate_naac_criterion"
                 THEN Merges(SubSeq(NaacFacts, 1, 3))
                 ELSE Merges(SubSeq(NirfFacts, 3, 5)))
    /\ evidence_map = EmptyDict
    /\ ret = None
    /\ pc = "ready"

\* the call returns (score, info); neither function has a raise statement
CallNaacCriterion ==
    /\ pc = "ready" /\ fn = "calculate_naac_criterion"
    /\ ret' = [raised |-> FALSE,
               score |-> calculate_naac_criterion(arg, data, evidence_map),
               not_found |-> arg \notin NaacCriterionIds]
    /\ pc' = "done"
    /\ UNCHANGED <<fn, data, evidence_map, arg>>

CallNirfParameter ==
    /\ pc = "ready" /\ fn = "calculate_nirf_parameter"
    /\ ret' = [raised |-> FALSE,
               score |-> calculate_nirf_parameter(arg, data, evidence_map),
               not_found |-> Lower(arg) \notin NirfParameterNames]
    /\ pc' = "done"
    /\ UNCHANGED <<fn, data, evidence_map, arg>>

NextDispatch == CallNaacCriterion \/ CallNirfParameter

SpecDispatch == InitDispatch /\ [][NextDispatch]_vars

\* ------------------------------------------------------------------------
\* Evaluation of the batch validity flag
\* ------------------------------------------------------------------------
\* a batch record: the validity flag, the stored overall score and sufficiency
Batches ==
    [is_invalid : {0, 1},
     overall_score : {None, Num(0), Num(7500)},
     sufficiency : {Absent, None, Num(0), Num(80)}]

\* result maps handed to the utils guard: none, the result maps of AICTE
\* evaluations, and maps that hold only an overall_score entry
KpiResultMaps ==
    {None}
    \cup {calculate_kpis("aicte", << >>, d, TRUE).kpi_results : d \in Merges(AicteFacts)}
    \cup {"overall_score" :> [value |-> v] : v \in {None, Num(0), Num(7500)}}

\* sufficiency results: none, or a percentage and a number of blocks present
SufficiencyResults ==
    {None}
    \cup {Dict1("percentage", p) @@ Dict1("present_count", c) @@ ("required_count" :> Num(10)) :
          p \in {None, Num(0), Num(50)}, c \in {None, Num(0), Num(5)}}

InitBatch ==
    /\ data \in Batches
    /\ \/ /\ fn = "utils_mark_batch_invalid_if_needed"
          /\ data.overall_score = None /\ data.sufficiency = Absent
          /\ \E k \in KpiResultMaps, sr \in SufficiencyResults :
                arg = [kpi_results |-> k, sufficiency_result |-> sr]
       \/ /\ fn = "services_mark_batch_invalid_if_needed"
          /\ arg = None
    /\ evidence_map = EmptyDict
    /\ ret = None
    /\ pc = "ready"

\* the batch is the object the guard mutates; the guard is called, and then
\* called again with the same arguments
CallUtilsMarkBatch ==
    /\ pc \in {"ready", "done"}
    /\ fn = "utils_mark_batch_invalid_if_needed"
    /\ LET out == utils_mark_batch_invalid_if_needed(data, arg.kpi_results,
                                                     arg.sufficiency_result)
       IN  /\ data' = out.batch
           /\ ret' = [returned |-> out.returned, was_invalid |-> data.is_invalid]
    /\ pc' = IF pc = "ready" THEN "done" ELSE "again"
    /\ UNCHANGED <<fn, evidence_map, arg>>

CallServicesMarkBatch ==
    /\ pc \in {"ready", "done"}
    /\ fn = "services_mark_batch_invalid_if_needed"
    /\ LET out == services_mark_batch_invalid_if_needed(data)
       IN  /\ data' = out.batch
           /\ ret' = [returned |-> out.returned, was_invalid |-> data.is_invalid]
    /\ pc' = IF pc = "ready" THEN "done" ELSE "again"
    /\ UNCHANGED <<fn, evidence_map, arg>>

NextBatch == CallUtilsMarkBatch \/ CallServicesMarkBatch

SpecBatch == InitBatch /\ [][NextBatch]_vars

\* ------------------------------------------------------------------------
\* Evaluation of the NBA engine's programme-outcome attainments
\* ------------------------------------------------------------------------
MaxPoStep == 2

MaxMappings == 2

MaxLevel == 3

\* attainments in hundredths of a percent: the two ends of the range and values
\* between them
PoVals == {0, 10000} \cup {1217 + 3333 * k : k \in 0..MaxPoStep}

\* calls of calculate_final_po_attainment, the weights left out, 0 or given
FinalPoInputs ==
    [direct_attainment : {None} \cup {Num(v) : v \in PoVals},
     indirect_attainment : {None} \cup {Num(v) : v \in PoVals},
     direct_weight : {None, Num(0), Num(50)},
     indirect_weight : {None, Num(0), Num(50)}]

\* what is recorded for one course outcome: nothing, an unknown or a known attainment
CoRecords(co_id) ==
    {<< >>} \cup {<< [co_id |-> co_id, attainment_percent |-> a] >> :
                  a \in {None, Num(6000), Num(7501)}}

\* the attainment lists: one record at most for each of the two outcomes, or two
\* records of the same outcome
CoAttainmentLists ==
    {a \o b : a \in CoRecords("CO1"), b \in CoRecords("CO2")}
    \cup {a \o b : a \in CoRecords("CO1") \ {<< >>}, b \in CoRecords("CO1") \ {<< >>}}

\* a mapping of a course outcome to the programme outcome, at level 0..MaxLevel
MappingRecords ==
    [co_id : {"CO1", "CO2"}, mapping_level : 0..MaxLevel]

\* the lists of at most n mappings
RECURSIVE MappingLists(_)
MappingLists(n) ==
    IF n = 0 THEN {<< >>}
    ELSE LET shorter == MappingLists(n - 1)
         IN  shorter \cup {Append(ms, m) : ms \in {l \in shorter : Len(l) = n - 1},
                                            m \in MappingRecords}

InitNba ==
    /\ \/ /\ fn = "final_po"
          /\ arg \in FinalPoInputs
       \/ /\ fn = "direct_po"
          /\ \E cos \in CoAttainmentLists, ms \in MappingLists(MaxMappings) :
                arg = [co_attainments |-> cos, mappings |-> ms]
    /\ data = EmptyDict
    /\ evidence_map = EmptyDict
    /\ ret = None
    /\ pc = "ready"

CallFinalPo ==
    /\ pc = "ready" /\ fn = "final_po"
    /\ \E tie_up \in BOOLEAN :
         ret' = calculate_final_po_attainment(arg.direct_attainment,
                                              arg.indirect_attainment,
                                              arg.direct_weight, arg.indirect_weight,
                                              tie_up)
    /\ pc' = "done"
    /\ UNCHANGED <<fn, data, evidence_map, arg>>

CallDirectPo ==
    /\ pc = "ready" /\ fn = "direct_po"
    /\ \E tie_up \in BOOLEAN :
         ret' = calculate_direct_po_attainment(arg.co_attainments, arg.mappings, tie_up)
    /\ pc' = "done"
    /\ UNCHANGED <<fn, data, evidence_map, arg>>

NextNba == CallFinalPo \/ CallDirectPo

SpecNba == InitNba /\ [][NextNba]_vars

\* ------------------------------------------------------------------------
\* The parameter functions of the NIRF engine
\* (services/nirf_calculation_engine.py)
\* ------------------------------------------------------------------------
\* round(min(100, n / d), 2) in hundredths (n >= 0, d > 0)
ClampedSubScore(n, d, tie_up) ==
    IF n >= 100 * d THEN 10000 ELSE RoundFloat(n * 100, d, tie_up)

\* the weighted mean of the sub-scores that are present (None marks a sub-score
\* that was not computed), rounded to two decimals
WeightedScore(sub_scores, weights, no_data, tie_up) ==
    LET has          == [i \in 1..Len(sub_scores) |-> ~IsNone(sub_scores[i])]
        total        == SumSeq([i \in 1..Len(sub_scores) |->
                                   IF has[i] THEN Val(sub_scores[i]) * weights[i]
                                   ELSE 0])
        total_weight == SumSeq(SelectMask(weights, has))
    IN  IF \A i \in 1..Len(sub_scores) : ~has[i]
        THEN [score |-> None, sub_scores |-> sub_scores, status |-> no_data]
        ELSE IF total_weight = 0
        THEN [score |-> None, sub_scores |-> sub_scores,
              status |-> "No valid sub-scores"]
        ELSE [score |-> Num(RoundFloat(total, total_weight, tie_up)),
              sub_scores |-> sub_scores, status |-> "Computed"]

NoEvidenceProvided ==
    [score |-> None, sub_scores |-> <<None, None, None, None>>,
     status |-> "No evidence provided"]

\* NIRFCalculationEngine.calculate_tlr; sub_scores in the order SS, FSR, FQE, FRU
engine_calculate_tlr(student_strength, faculty_count, phd_faculty, financial_resources, evidence_doc_ids, ties) ==
    IF evidence_doc_ids = << >> THEN NoEvidenceProvided
    ELSE LET ss  == IF ~IsNone(student_strength) /\ Val(student_strength) > 0
                    THEN Num(ClampedSubScore(Val(student_strength) * 100, 3000,
                                             ties[1]))
                    ELSE None
             fsr == IF Truthy(faculty_count) /\ Truthy(student_strength)
                    THEN Num(ClampedSubScore(Val(faculty_count) * 2000,
                                             Val(student_strength), ties[2]))
                    ELSE None
             fqe == IF ~IsNone(phd_faculty) /\ Truthy(faculty_count)
                    THEN Num(ClampedSubScore(Val(phd_faculty) * 100,
                                             Val(faculty_count), ties[3]))
                    ELSE None
             fru == IF ~IsNone(financial_resources)
                    THEN Num(ClampedSubScore(Val(financial_resources) * 100, 50,
                                             ties[4]))
                    ELSE None
         IN  WeightedScore(<<ss, fsr, fqe, fru>>, <<20, 30, 20, 30>>,
                           "Insufficient TLR data", ties[5])

\* NIRFCalculationEngine.calculate_rp; sub_scores in the order PU, QP, IPR, FPPP
engine_calculate_rp(publications, citations, patents, funded_projects, evidence_doc_ids, ties) ==
    IF evidence_doc_ids = << >> THEN NoEvidenceProvided
    ELSE LET pu   == IF ~IsNone(publications)
                     THEN Num(ClampedSubScore(Val(publications) * 100, 500, ties[1]))
                     ELSE None
             qp   == IF ~IsNone(citations) /\ Truthy(publications)
                     THEN Num(ClampedSubScore(Val(citations) * 10,
                                              Val(publications), ties[2]))
                     ELSE None
             ipr  == IF ~IsNone(patents)
                     THEN Num(ClampedSubScore(Val(patents) * 100, 50, ties[3]))
                     ELSE None
             fppp == IF ~IsNone(funded_projects)
                     THEN Num(ClampedSubScore(Val(funded_projects) * 100, 20,
                                              ties[4]))
                     ELSE None
         IN  WeightedScore(<<pu, qp, ipr, fppp>>, <<35, 35, 15, 15>>,
                           "Insufficient RP data", ties[5])

\* NIRFCalculationEngine.calculate_go; sub_scores in the order Placement, GPH, MS
engine_calculate_go(placed_students, total_graduates, median_salary, higher_studies, evidence_doc_ids, ties) ==
    IF evidence_doc_ids = << >> THEN NoEvidenceProvided
    ELSE LET placement == IF ~IsNone(placed_students) /\ Truthy(total_graduates)
                          THEN Num(ClampedSubScore(Val(placed_students) * 100,
                                                   Val(total_graduates), ties[1]))
                          ELSE None
             gph       == IF ~IsNone(higher_studies) /\ Truthy(total_graduates)
                          THEN Num(ClampedSubScore(Val(higher_studies) * 200,
                                                   Val(total_graduates), ties[2]))
                          ELSE None
             ms        == IF ~IsNone(median_salary)
                          THEN Num(ClampedSubScore(Val(median_salary) * 100, 15,
                                                   ties[3]))
                          ELSE None
         IN  WeightedScore(<<placement, gph, ms, None>>, <<35, 40, 25, 0>>,
                           "Insufficient GO data", ties[5])

\* NIRFCalculationEngine.calculate_oi; sub_scores in the order WD, ESCS, RD
engine_calculate_oi(women_students, total_students, economically_challenged, regional_diversity, evidence_doc_ids, ties) ==
    IF evidence_doc_ids = << >> THEN NoEvidenceProvided
    ELSE LET wd   == IF ~IsNone(women_students) /\ Truthy(total_students)
                     THEN Num(ClampedSubScore(Val(women_students) * 200,
                                              Val(total_students), ties[1]))
                     ELSE None
             escs == IF ~IsNone(economically_challenged) /\ Truthy(total_students)
                     THEN Num(ClampedSubScore(Val(economically_challenged) * 200,
                                              Val(total_students), ties[2]))
                     ELSE None
             rd   == IF ~IsNone(regional_diversity)
                     THEN Num(ClampedSubScore(Val(regional_diversity), 1, ties[3]))
                     ELSE None
         IN  WeightedScore(<<wd, escs, rd, None>>, <<30, 20, 30, 0>>,
                           "Insufficient OI data", ties[5])

\* the arguments of the four weighted parameters: each absent (None), zero, below
\* its benchmark or above it; the evidence list empty or not
EngineArgs ==
    [tlr |-> <<{0, 1500, 6000}, {0, 60, 400}, {0, 30, 500}, {0, 20, 80}>>,
     rp  |-> <<{0, 200, 900}, {0, 1000, 20000}, {0, 10, 70}, {0, 5, 30}>>,
     go  |-> <<{0, 120, 300}, {0, 200}, {0, 6, 40}, {0, 40, 250}>>,
     oi  |-> <<{0, 300, 1200}, {0, 1000}, {0, 100, 800}, {0, 45, 130}>>]

\* perception answers on the 0-100 scale of the survey and above it (hundredths)
EnginePerceptionDicts ==
    { d \in [{"peer_perception", "employer_perception", "academic_perception"}
               -> {None, Num(8000), Num(15000)}] : TRUE }

InitNirfEngine ==
    /\ \/ /\ fn \in {"tlr", "rp", "go", "oi"}
          /\ arg \in { [a |-> a, b |-> b, c |-> c, d |-> d, evidence_doc_ids |-> e] :
                       a \in {None} \cup {Num(v) : v \in EngineArgs[fn][1]},
                       b \in {None} \cup {Num(v) : v \in EngineArgs[fn][2]},
                       c \in {None} \cup {Num(v) : v \in EngineArgs[fn][3]},
                       d \in {None} \cup {Num(v) : v \in EngineArgs[fn][4]},
                       e \in {<< >>, <<"doc-1">>} }
       \/ /\ fn = "nirf_pr"
          /\ arg \in { [has_perception_survey |-> h, perception_data |-> p,
                        evidence_doc_ids |-> e] :
                       h \in BOOLEAN, p \in EnginePerceptionDicts,
                       e \in {<< >>, <<"doc-1">>} }
    /\ data = EmptyDict
    /\ evidence_map = EmptyDict
    /\ ret = None
    /\ pc = "ready"

CallEngineTlr ==
    /\ pc = "ready" /\ fn = "tlr"
    /\ \E ties \in [1..5 -> BOOLEAN] :
           ret' = engine_calculate_tlr(arg.a, arg.b, arg.c, arg.d,
                                       arg.evidence_doc_ids, ties)
    /\ pc' = "done"
    /\ UNCHANGED <<fn, data, evidence_map, arg>>

CallEngineRp ==
    /\ pc = "ready" /\ fn = "rp"
    /\ \E ties \in [1..5 -> BOOLEAN] :
           ret' = engine_calculate_rp(arg.a, arg.b, arg.c, arg.d,
                                      arg.evidence_doc_ids, ties)
    /\ pc' = "done"
    /\ UNCHANGED <<fn, data, evidence_map, arg>>

CallEngineGo ==
    /\ pc = "ready" /\ fn = "go"
    /\ \E ties \in [1..5 -> BOOLEAN] :
           ret' = engine_calculate_go(arg.a, arg.b, arg.c, arg.d,
                                      arg.evidence_doc_ids, ties)
    /\ pc' = "done"
    /\ UNCHANGED <<fn, data, evidence_map, arg>>

CallEngineOi ==
    /\ pc = "ready" /\ fn = "oi"
    /\ \E ties \in [1..5 -> BOOLEAN] :
           ret' = engine_calculate_oi(arg.a, arg.b, arg.c, arg.d,
                                      arg.evidence_doc_ids, ties)
    /\ pc' = "done"
    /\ UNCHANGED <<fn, data, evidence_map, arg>>

NextNirfEngine ==
    CallEngineTlr \/ CallEngineRp \/ CallEngineGo \/ CallEngineOi \/ CallNirfPr

SpecNirfEngine == InitNirfEngine /\ [][NextNirfEngine]_vars

\* ------------------------------------------------------------------------
\* The fast and heavy paths of the pipeline (pipelines/optimized_pipeline.py)
\* ------------------------------------------------------------------------
\* OptimizedPipeline._validate_batch_data
_validate_batch_data(kpi_results, sufficiency_result, blocks) ==
    LET overall == IF "overall_score" \in DOMAIN kpi_results
                   THEN kpi_results["overall_score"].value ELSE None
    IN  IF IsNone(overall) \/ overall = Num(0) THEN FALSE
        ELSE IF GetOr(sufficiency_result, "percentage", Num(0)) = Num(0) THEN FALSE
        ELSE IF \A j \in 1..Len(blocks) : blocks[j].is_invalid THEN FALSE
        ELSE TRUE

\* OptimizedPipeline.fast_path on a batch that has the number of files; fault: a
\* service or the database raises inside the try block
fast_path(batch, files, fault) ==
    IF files = 0
    THEN [batch |-> [batch EXCEPT !.status = "invalid",
                                  !.errors = <<"No files uploaded">>],
          returned |-> [status |-> "invalid"]]
    ELSE IF fault
    THEN [batch |-> [batch EXCEPT !.status = "failed", !.errors = <<"error">>],
          returned |-> [status |-> "failed"]]
    ELSE [batch |-> [batch EXCEPT !.status = "ready_for_heavy", !.errors = << >>],
          returned |-> [status |-> "ready_for_heavy"]]

\* heavy_path from the data validation on: the batch holds the sufficiency
\* result and the KPI results
heavy_path_validate(scored, blocks, fault) ==
    IF ~_validate_batch_data(scored.kpi_results, scored.sufficiency_result, blocks)
    THEN [batch |-> [scored EXCEPT
                       !.status = "invalid", !.is_invalid = 1,
                       !.errors = <<"Batch marked invalid: insufficient data or zero KPIs">>],
          returned |-> [status |-> "invalid"]]
    ELSE IF fault
    THEN [batch |-> [scored EXCEPT !.status = "failed", !.errors = <<"error">>],
          returned |-> [status |-> "failed"]]
    ELSE [batch |-> [scored EXCEPT !.status = "completed"],
          returned |-> [status |-> "completed"]]

\* OptimizedPipeline.heavy_path on a batch whose blocks are the list; the
\* sufficiency result is the one BlockSufficiencyService gives; fault: a service
\* called after the data validation raises
heavy_path(batch, blocks, sufficiency_result, fault, tie_up) ==
    IF batch.status # "ready_for_heavy"
    THEN [batch |-> batch, returned |-> [status |-> batch.status]]
    ELSE IF calculate_kpis_raises(batch.mode)
    THEN [batch |-> [batch EXCEPT !.status = "failed", !.errors = <<"error">>,
                                  !.sufficiency_result = sufficiency_result],
          returned |-> [status |-> "failed"]]
    ELSE heavy_path_validate(
             [batch EXCEPT !.sufficiency_result = sufficiency_result,
                           !.kpi_results = calculate_kpis(batch.mode, blocks, EmptyDict,
                                                          tie_up).kpi_results],
             blocks, fault)

\* ProductionGuard.filter_valid_batches keeps the batch
filter_valid_batches_keeps(batch) ==
    batch.is_invalid = 0 /\ batch.status = "completed" /\ batch.kpi_results # EmptyDict

\* a new batch of the mode: valid, nothing computed yet
InitPipeline ==
    /\ fn = "fast_path"
    /\ \E mode \in {"aicte", "naac", "nba"} :
          data = [mode |-> mode, status |-> "created", is_invalid |-> 0,
                  errors |-> << >>, kpi_results |-> EmptyDict,
                  sufficiency_result |-> EmptyDict]
    /\ arg = None
    /\ evidence_map = EmptyDict
    /\ ret = None
    /\ pc = "ready"

\* a run of fast_path on the batch, with the files the batch has at that time
RunFastPath ==
    /\ pc \in {"ready", "done"}
    /\ \E files \in 0..1, fault \in BOOLEAN :
          LET out == fast_path(data, files, fault)
          IN  /\ arg' = [files |-> files, fault |-> fault]
              /\ data' = out.batch
              /\ ret' = out.returned
    /\ fn' = "fast_path"
    /\ pc' = "done"
    /\ UNCHANGED evidence_map

\* the blocks and the sufficiency result a heavy_path run reads, and whether a
\* later service raises; a run on a batch that is not ready reads none of them
HeavyPathInputs(batch) ==
    IF batch.status # "ready_for_heavy"
    THEN {[blocks |-> << >>, sufficiency_result |-> EmptyDict, fault |-> FALSE]}
    ELSE { [blocks |-> blocks, sufficiency_result |-> Dict1("percentage", percentage),
            fault |-> fault] :
           blocks \in BlockLists(batch.mode, 1), percentage \in {Num(0), Num(50)},
           fault \in BOOLEAN }

\* a run of heavy_path on the batch, with the blocks the batch has at that time
RunHeavyPath ==
    /\ pc \in {"ready", "done"}
    /\ \E in \in HeavyPathInputs(data), tie_up \in BOOLEAN :
      \E out \in {heavy_path(data, in.blocks, in.sufficiency_result, in.fault,
                              tie_up)} :
          /\ arg' = in
          /\ data' = out.batch
          /\ ret' = out.returned
    /\ fn' = "heavy_path"
    /\ pc' = "done"
    /\ UNCHANGED evidence_map

NextPipeline == RunFastPath \/ RunHeavyPath

SpecPipeline == InitPipeline /\ [][NextPipeline]_vars

\* ------------------------------------------------------------------------
\* The two evidence validators on the same value and evidence record
\* (services/production_guard.py, services/evidence_tracker.py)
\* ------------------------------------------------------------------------
\* evidence.get(key) as the text the guard tests: "" when missing, None or empty
EvidenceText(evidence, key) ==
    IF Truthy(Get(evidence, key)) THEN Get(evidence, key)[2] ELSE ""

\* the evidence dict as the record the guard reads; {} is no record
EvidenceRecord(evidence) ==
    IF evidence = EmptyDict THEN None
    ELSE Ev(EvidenceText(evidence, "snippet"), EvidenceText(evidence, "source_doc"))

\* evidence records: {}, and every mix of a missing, a None, an empty and a filled
\* snippet and source document, with or without a page
ValidatorEvidence ==
    { s_ @@ d_ @@ p_ :
        s_ \in {EmptyDict, "snippet" :> None, "snippet" :> Str(""),
                "snippet" :> Str("Faculty: 5")},
        d_ \in {EmptyDict, "source_doc" :> None, "source_doc" :> Str(""),
                "source_doc" :> Str("a.pdf")},
        p_ \in {EmptyDict, "page" :> Num(5)} }

InitValidators ==
    /\ fn \in {"validate_evidence", "validate_evidence_required"}
    /\ \E value \in {None, Num(0), Num(100), Str(""), Text},
          evidence \in ValidatorEvidence :
          arg = [value |-> value, evidence |-> evidence]
    /\ data = EmptyDict
    /\ evidence_map = EmptyDict
    /\ ret = None
    /\ pc = "ready"

CallValidateEvidenceRequired ==
    /\ pc = "ready" /\ fn = "validate_evidence_required"
    /\ ret' = [has_evidence |->
                  validate_evidence_required(arg.value, EvidenceRecord(arg.evidence))]
    /\ pc' = "done"
    /\ UNCHANGED <<fn, data, evidence_map, arg>>

NextValidators == CallValidateEvidenceRequired \/ CallValidateEvidence

SpecValidators == InitValidators /\ [][NextValidators]_vars

\* ------------------------------------------------------------------------
\* Properties of the ratio formulas
\* ------------------------------------------------------------------------
\* some record under one of the keys carries a snippet or a source document
Evidenced(keys) ==
    \E k \in keys : /\ k \in DOMAIN evidence_map
                    /\ \/ evidence_map[k][1].snippet # ""
                       \/ evidence_map[k][1].source_doc # ""

\* no record at all under any of the keys
NoRecord(keys) == \A k \in keys : k \notin DOMAIN evidence_map

\* the one value the fact set holds under the keys (None when it holds none)
Held(keys) ==
    IF \E k \in keys : k \in DOMAIN data
    THEN data[CHOOSE k \in keys : k \in DOMAIN data]
    ELSE None

\* score (hundredths) is num / den rounded to two decimals
IsRounded(score, num, den) ==
    LET diff == score * den - 100 * num
    IN  2 * Abs(diff) <= den

FsrDone == pc = "done" /\ fn = "fsr"

\* C1: with evidenced faculty f > 0 and students s > 0 and r = s / f, the FSR score
\* is 100 for r <= 15, 100 - 8 (r - 15) for 15 < r <= 20 and max(0, 60 - 3 (r - 20))
\* above 20 (to the two decimals a score carries); so 100 at 15, 60 at 20, 45 at 25
\* and 0 from 40 on.
C1_FsrScoringRule ==
    LET f == Held(FsrFacultyKeys)
        s == Held(FsrStudentKeys)
    IN  ( /\ FsrDone
          /\ IsNum(f) /\ IsNum(s) /\ Val(f) > 0 /\ Val(s) > 0
          /\ Evidenced({"faculty_count", "total_faculty"})
          /\ Evidenced({"student_count", "total_students"}) )
        => /\ IsNum(ret.score)
           /\ LET F  == Val(f)
                  S  == Val(s)
                  sc == Val(ret.score)
              IN  /\ S <= 15 * F => sc = 10000
                  /\ (15 * F < S /\ S <= 20 * F) => IsRounded(sc, 220 * F - 8 * S, F)
                  /\ (20 * F < S /\ S < 40 * F) => IsRounded(sc, 120 * F - 3 * S, F)
                  /\ S >= 40 * F => sc = 0
                  /\ S = 20 * F => sc = 6000
                  /\ S = 25 * F => sc = 4500

\* an evidenced ratio of 50 / 3 scored in the 15..20 band
C1_Witness ==
    /\ FsrDone
    /\ Held(FsrFacultyKeys) = Num(3) /\ Held(FsrStudentKeys) = Num(50)
    /\ Evidenced({"faculty_count", "total_faculty"})
    /\ Evidenced({"student_count", "total_students"})
    /\ ret.score = Num(8667)

C3_ScoreWithEmptyEvidenceMap ==
    (pc = "done" /\ evidence_map = EmptyDict) =>
        /\ ( /\ fn = "fsr"
             /\ IsNum(Get(data, "faculty_count_num")) /\ Val(Get(data, "faculty_count_num")) > 0
             /\ IsNum(Get(data, "student_count_num")) /\ Val(Get(data, "student_count_num")) > 0
             /\ Val(Get(data, "student_count_num")) <= 15 * Val(Get(data, "faculty_count_num")) )
           => ret.score = Num(10000)
        /\ ( /\ fn = "placement"
             /\ IsNum(Get(data, "students_placed_num")) /\ Val(Get(data, "students_placed_num")) > 0
             /\ IsNum(Get(data, "students_eligible_num"))
             /\ Val(Get(data, "students_eligible_num")) = Val(Get(data, "students_placed_num")) )
           => ret.score = Num(10000)
        /\ ( /\ fn = "lab_compliance"
             /\ IsNum(Get(data, "total_labs_num")) /\ Val(Get(data, "total_labs_num")) >= 5
             /\ IsNum(Get(data, "total_students_num"))
             /\ Val(Get(data, "total_students_num")) <= 50 * Val(Get(data, "total_labs_num")) )
           => ret.score = Num(10000)

\* C12: every numerator and denominator that enters a placement or lab compliance
\* score is an evidenced extracted fact: a score built on a directly supplied
\* placement rate needs an evidenced rate, one built on placed / eligible needs both
\* evidenced, and a lab compliance score needs evidenced labs and a required-labs
\* figure that is held in the fact set and evidenced; otherwise the result is unknown.
C12_RatioInputsEvidenced ==
    (pc = "done" /\ IsNum(ret.score)) =>
        /\ fn = "placement" =>
              IF ~IsNone(Held(PlacementRateKeys))
              THEN Evidenced({"placement_rate"})
              ELSE /\ IsNum(Held(PlacedKeys))
                   /\ Evidenced({"students_placed", "total_placements"})
                   /\ IsNum(Held(EligibleKeys))
                   /\ Evidenced({"students_eligible", "total_students", "student_count"})
        /\ fn = "lab_compliance" =>
              /\ IsNum(Held(LabKeys)) /\ Evidenced({"total_labs", "lab_count"})
              /\ IsNum(Held({"required_labs_num", "required_labs"}))
              /\ Evidenced({"required_labs"})

\* C13: a ratio formula whose denominator is zero returns unknown, whatever the
\* other inputs are: the FSR with faculty = 0, the placement index computed from
\* placed / eligible with eligible = 0, the lab compliance with required labs = 0
\* and the CO attainment with total_students = 0.
C13_ZeroDenominatorUnknown ==
    pc = "done" =>
        /\ (fn = "fsr" /\ Held(FsrFacultyKeys) = Num(0)) => IsNone(ret.score)
        /\ ( /\ fn = "placement" /\ IsNone(Held(PlacementRateKeys))
             /\ Held(EligibleKeys) = Num(0) ) => IsNone(ret.score)
        /\ ( /\ fn = "lab_compliance"
             /\ Held({"required_labs_num", "required_labs"}) = Num(0) )
           => IsNone(ret.score)
        /\ (fn = "co_attainment" /\ arg.total_students = Num(0)) => IsNone(ret.score)

\* ------------------------------------------------------------------------
\* Properties of the infrastructure score
\* ------------------------------------------------------------------------
InfraDone == pc = "done" /\ fn = "infrastructure"

InfraParts == {"area", "classrooms", "library", "digital", "hostel"}

\* C10: with an evidenced student count > 0 the infrastructure score lies in
\* [0, 100], and so does each of the five sub-scores before weighting, however far
\* the inputs exceed their norms.
C10_InfraScoreInRange ==
    InfraDone =>
        /\ ( /\ IsNum(Held(InfraStudentKeys)) /\ Val(Held(InfraStudentKeys)) > 0
             /\ Evidenced({"total_students", "student_count", "total_intake"}) )
           => IsNum(ret.score)
        /\ IsNum(ret.score) =>
             /\ 0 <= Val(ret.score) /\ Val(ret.score) <= 10000
             /\ DOMAIN ret.sub_scores = InfraParts
             /\ \A part \in InfraParts :
                  /\ 0 <= ret.sub_scores[part].n
                  /\ ret.sub_scores[part].n <= 100 * ret.sub_scores[part].d

\* every quantity far above its norm: five capped sub-scores and a score of 100
C10_Witness ==
    /\ InfraDone
    /\ Get(data, "built_up_area_sqm_num") = Num(InfraBig)
    /\ Get(data, "total_classrooms") = Num(InfraBig)
    /\ Get(data, "library_area_sqm") = Num(InfraBig)
    /\ Get(data, "digital_library_resources") = Num(InfraBig)
    /\ Get(data, "hostel_capacity") = Num(InfraBig)
    /\ \A part \in InfraParts : ret.sub_scores[part] = RInt(100)
    /\ ret.score = Num(10000)

\* the evidence-map keys under which each sub-component's input is recorded
InfraEvidenceKeys(part) ==
    CASE part = "area"       -> {"built_up_area", "built_up_area_sqm"}
      [] part = "classrooms" -> {"classrooms", "total_classrooms"}
      [] part = "library"    -> {"library_area"}
      [] part = "digital"    -> {"digital_library_resources", "digital_library_systems"}
      [] part = "hostel"     -> {"hostel_capacity"}

\* C11: a sub-component of the infrastructure score whose input has no evidence
\* record in the evidence map contributes exactly 0 to the weighted sum, even when
\* the fact set holds a positive value for it.
C11_UnevidencedPartContributesZero ==
    (InfraDone /\ IsNum(ret.score)) =>
        \A part \in InfraParts :
            NoRecord(InfraEvidenceKeys(part)) => ret.sub_scores[part] = RInt(0)

\* ------------------------------------------------------------------------
\* Properties of the overall-score aggregations and of the perception parameter
\* ------------------------------------------------------------------------
\* the keys of the dict that hold a number
KnownKeys(d, keys) == {k \in keys : IsNum(Get(d, k))}

\* the sum of the numbers the dict holds under the keys
RECURSIVE SumKnown(_, _)
SumKnown(d, keys) ==
    IF keys = {} THEN 0
    ELSE LET k == CHOOSE x \in keys : TRUE
         IN  Val(d[k]) + SumKnown(d, keys \ {k})

\* the list holds no element twice
NoRepeat(s) == Cardinality(Elems(s)) = Len(s)

AicteDone == pc = "done" /\ fn = "aicte_overall"

AicteNameOf(k) ==
    CASE k = "fsr_score" -> "FSR"
      [] k = "infrastructure_score" -> "Infrastructure"
      [] k = "placement_index" -> "Placement"
      [] k = "lab_compliance_index" -> "Lab Compliance"

\* C4: the AICTE overall score is unknown exactly when all four KPIs are unknown;
\* otherwise it is the mean of the known KPIs (to the two decimals a score carries),
\* included lists exactly the known KPIs, excluded exactly the unknown ones, and the
\* two lists partition the four names.
C4_AicteOverallPartialAverage ==
    AicteDone =>
        LET all   == {"fsr_score", "infrastructure_score", "placement_index",
                      "lab_compliance_index"}
            known == KnownKeys(arg, all)
        IN  /\ IsNone(ret.score) <=> known = {}
            /\ known # {} =>
                  /\ IsNum(ret.score)
                  /\ IsRounded(Val(ret.score), SumKnown(arg, known),
                               100 * Cardinality(known))
            /\ Elems(ret.included) = {AicteNameOf(k) : k \in known}
            /\ Elems(ret.excluded) = {AicteNameOf(k) : k \in all \ known}
            /\ NoRepeat(ret.included) /\ NoRepeat(ret.excluded)
            /\ Elems(ret.included) \cap Elems(ret.excluded) = {}
            /\ Elems(ret.included) \cup Elems(ret.excluded) = Elems(AicteNames)

\* FSR 85 and Placement 75 known, the other two unknown: overall 80 over the two
C4_Witness ==
    /\ AicteDone
    /\ Get(arg, "fsr_score") = Num(8500)
    /\ Get(arg, "placement_index") = Num(7500)
    /\ "infrastructure_score" \in DOMAIN arg /\ arg["infrastructure_score"] = None
    /\ "lab_compliance_index" \notin DOMAIN arg
    /\ ret.score = Num(8000)
    /\ ret.included = <<"FSR", "Placement">>
    /\ ret.excluded = <<"Infrastructure", "Lab Compliance">>

CgpaDone == pc = "done" /\ fn = "naac_cgpa"

\* C5: the NAAC CGPA is unknown exactly when one of C1..C7 is unknown or absent, the
\* missing list is exactly the unknown or absent criteria, and with none missing the
\* CGPA is sum(score * weight) / 1000 under the weights 150, 200, 250, 100, 100, 100,
\* 100 (to the two decimals a score carries) with an empty missing list.
C5_CgpaFullCoverage ==
    CgpaDone =>
        LET ids  == {"C1", "C2", "C3", "C4", "C5", "C6", "C7"}
            miss == ids \ KnownKeys(arg, ids)
            g(c) == Val(arg[c])
        IN  /\ IsNone(ret.cgpa) <=> miss # {}
            /\ Elems(ret.missing) = miss
            /\ NoRepeat(ret.missing)
            /\ miss = {} =>
                  /\ IsNum(ret.cgpa)
                  /\ ret.missing = << >>
                  /\ IsRounded(Val(ret.cgpa),
                               150 * g("C1") + 200 * g("C2") + 250 * g("C3")
                               + 100 * (g("C4") + g("C5") + g("C6") + g("C7")),
                               100 * 1000)

\* only C5 is missing: no CGPA, and the missing list is [C5]
C5_Witness ==
    /\ CgpaDone
    /\ KnownKeys(arg, {"C1", "C2", "C3", "C4", "C5", "C6", "C7"})
         = {"C1", "C2", "C3", "C4", "C6", "C7"}
    /\ ret.cgpa = None
    /\ ret.missing = <<"C5">>

\* all seven criteria known with unequal grades: C1..C3 at 4.00, C4..C7 at 3.33 give
\* (600 + 800 + 1000 + 4 * 333) / 1000 = 3.732, reported as 3.73
C5_WitnessComplete ==
    /\ CgpaDone
    /\ \A c \in {"C1", "C2", "C3"} : Get(arg, c) = Num(400)
    /\ \A c \in {"C4", "C5", "C6", "C7"} : Get(arg, c) = Num(333)
    /\ ret.cgpa = Num(373)
    /\ ret.missing = << >>

PrDone == pc = "done" /\ fn = "nirf_pr"

\* C7: without a perception survey the PR score is unknown, whatever the perception
\* data and the evidence list hold.
C7_PrNeedsSurvey ==
    (PrDone /\ ~arg.has_perception_survey) => IsNone(ret.score)

\* no survey, yet all three perception scores and an evidence document are given:
\* the score is unknown
C7_Witness ==
    /\ PrDone
    /\ ~arg.has_perception_survey
    /\ DOMAIN arg.perception_data
         = {"peer_perception", "employer_perception", "academic_perception"}
    /\ arg.evidence_doc_ids # << >>
    /\ ret.score = None

NirfOverallDone == pc = "done" /\ fn = "nirf_overall"

\* C9: the NIRF overall score is unknown exactly when one of TLR, RP, GO, OI is
\* unknown; otherwise it is the mean of the known parameters, four without PR and
\* five with it (to the two decimals a score carries). An unknown PR is always
\* reported in the missing list, and so is every unknown required parameter.
C9_NirfOverallScore ==
    NirfOverallDone =>
        LET required == {"TLR", "RP", "GO", "OI"}
            lacking  == required \ KnownKeys(arg, required)
            known    == KnownKeys(arg, required \cup {"PR"})
            has_pr   == IsNum(Get(arg, "PR"))
        IN  /\ IsNone(ret.score) <=> lacking # {}
            /\ lacking = {} =>
                  /\ IsNum(ret.score)
                  /\ Cardinality(known) = (IF has_pr THEN 5 ELSE 4)
                  /\ IsRounded(Val(ret.score), SumKnown(arg, known),
                               100 * Cardinality(known))
            /\ ~has_pr <=> "PR (Perception Survey)" \in Elems(ret.missing)
            /\ Elems(ret.missing) \cap required = lacking

\* TLR 80, RP 70, GO 85, OI 75 and no PR: overall 77.5, PR reported missing
C9_Witness ==
    /\ NirfOverallDone
    /\ Get(arg, "TLR") = Num(8000) /\ Get(arg, "RP") = Num(7000)
    /\ Get(arg, "GO") = Num(8500) /\ Get(arg, "OI") = Num(7500)
    /\ IsNone(Get(arg, "PR"))
    /\ ret.score = Num(7750)
    /\ ret.missing = <<"PR (Perception Survey)">>

\* ------------------------------------------------------------------------
\* Properties of the KPI evaluation of one mode
\* ------------------------------------------------------------------------
KpisDone == pc = "done" /\ fn = "calculate_kpis"

\* C6: in a NAAC run of calculate_kpis the overall score is unknown whenever one of
\* criterion_1..criterion_7 is unknown; a number comes back only when all seven are
\* numbers.
C6_NaacOverallNeedsAllCriteria ==
    (KpisDone /\ Lower(arg.mode) = "naac") =>
        ( (\E c \in Elems(get_kpi_formulas("naac")) : IsNone(ret[c].value))
          => IsNone(ret["overall_score"].value) )

\* C8: in a NIRF run of calculate_kpis the PR parameter is unknown unless the fact set
\* holds a true survey flag; perception fields alone never give a PR score.
C8_PrNeedsSurveyFlag ==
    (KpisDone /\ Lower(arg.mode) = "nirf") =>
        ( ~Truthy(Get(data, "has_perception_survey")) => IsNone(ret["pr"].value) )

\* ------------------------------------------------------------------------
\* Properties of the NBA engine's programme-outcome attainments
\* ------------------------------------------------------------------------
FinalPoDone == pc = "done" /\ fn = "final_po"

\* C14: with the default weights calculate_final_po_attainment returns
\* 0.8 * direct + 0.2 * indirect (to two decimals) when both are known, exactly the
\* one known value with a formula string noting that the other is absent when only
\* one is known, and unknown when neither is; for direct and indirect in [0, 100]
\* the result is in [0, 100].
C14_FinalPoAttainment ==
    (FinalPoDone /\ ~Truthy(arg.direct_weight) /\ ~Truthy(arg.indirect_weight)) =>
        LET direct   == arg.direct_attainment
            indirect == arg.indirect_attainment
        IN  /\ (IsNum(direct) /\ IsNum(indirect)) =>
                  /\ IsNum(ret.value)
                  /\ 2 * Abs(10 * Val(ret.value) - (8 * Val(direct) + 2 * Val(indirect)))
                       <= 10
                  /\ ret.formula = "Final"
            /\ (IsNum(direct) /\ IsNone(indirect)) =>
                  /\ ret.value = direct
                  /\ ret.formula = "Direct only (No indirect data)"
            /\ (IsNone(direct) /\ IsNum(indirect)) =>
                  /\ ret.value = indirect
                  /\ ret.formula = "Indirect only (No direct data)"
            /\ (IsNone(direct) /\ IsNone(indirect)) => IsNone(ret.value)
            /\ ( /\ IsNum(ret.value)
                 /\ IsNum(direct) => (0 <= Val(direct) /\ Val(direct) <= 10000)
                 /\ IsNum(indirect) => (0 <= Val(indirect) /\ Val(indirect) <= 10000) )
               => (0 <= Val(ret.value) /\ Val(ret.value) <= 10000)

\* direct 78.83 and indirect 45.50 with the default weights: 72.16
C14_Witness ==
    /\ FinalPoDone
    /\ IsNone(arg.direct_weight) /\ IsNone(arg.indirect_weight)
    /\ arg.direct_attainment = Num(7883) /\ arg.indirect_attainment = Num(4550)
    /\ ret.value = Num(7216)

\* only the direct attainment is known: it is returned unchanged
C14_WitnessDirectOnly ==
    /\ FinalPoDone
    /\ IsNone(arg.direct_weight) /\ IsNone(arg.indirect_weight)
    /\ arg.direct_attainment = Num(7883) /\ IsNone(arg.indirect_attainment)
    /\ ret.value = Num(7883)

DirectPoDone == pc = "done" /\ fn = "direct_po"

\* the positions of the records of co_id that carry a known attainment
KnownAt(co_attainments, co_id) ==
    {j \in 1..Len(co_attainments) :
        /\ co_attainments[j].co_id = co_id
        /\ ~IsNone(co_attainments[j].attainment_percent)}

\* the known attainment of co_id (of its last record when it has several)
AttainmentOf(co_attainments, co_id) ==
    LET at == KnownAt(co_attainments, co_id)
    IN  Val(co_attainments[CHOOSE j \in at : \A k \in at : k <= j].attainment_percent)

\* the sum of attainment * level, and of level, over the mappings at the positions
RECURSIVE SumAttainmentLevel(_, _, _)
SumAttainmentLevel(co_attainments, mappings, positions) ==
    IF positions = {} THEN 0
    ELSE LET i == CHOOSE i \in positions : TRUE
         IN  AttainmentOf(co_attainments, mappings[i].co_id) * mappings[i].mapping_level
             + SumAttainmentLevel(co_attainments, mappings, positions \ {i})

RECURSIVE SumLevel(_, _)
SumLevel(mappings, positions) ==
    IF positions = {} THEN 0
    ELSE LET i == CHOOSE i \in positions : TRUE
         IN  mappings[i].mapping_level + SumLevel(mappings, positions \ {i})

\* C15: calculate_direct_po_attainment returns sum(attainment * level) / sum(level)
\* (to two decimals) over exactly the mappings whose course outcome has a known
\* attainment; outcomes with unknown attainment enter neither sum; the result is
\* unknown when no mapping has a known attainment or the sum of levels is zero.
C15_DirectPoWeightedAverage ==
    DirectPoDone =>
        LET cos   == arg.co_attainments
            ms    == arg.mappings
            known == {i \in 1..Len(ms) : KnownAt(cos, ms[i].co_id) # {}}
            num   == SumAttainmentLevel(cos, ms, known)
            den   == SumLevel(ms, known)
        IN  /\ Len(ret.contributing_cos) = (IF known = {} THEN 0 ELSE Cardinality(known))
            /\ IF known = {} \/ den = 0
               THEN IsNone(ret.value)
               ELSE /\ IsNum(ret.value)
                    /\ 2 * Abs(Val(ret.value) * den - num) <= den

\* CO1 attained 75.01 at level 3, CO2 mapped at level 2 with unknown attainment:
\* the result is CO1's 75.01
C15_Witness ==
    /\ DirectPoDone
    /\ arg.co_attainments = << [co_id |-> "CO1", attainment_percent |-> Num(7501)],
                               [co_id |-> "CO2", attainment_percent |-> None] >>
    /\ arg.mappings = << [co_id |-> "CO1", mapping_level |-> 3],
                         [co_id |-> "CO2", mapping_level |-> 2] >>
    /\ ret.value = Num(7501)

\* two known outcomes at levels 3 and 1: (60.00 * 3 + 75.01 * 1) / 4 = 63.75
C15_WitnessTwoKnown ==
    /\ DirectPoDone
    /\ arg.co_attainments = << [co_id |-> "CO1", attainment_percent |-> Num(6000)],
                               [co_id |-> "CO2", attainment_percent |-> Num(7501)] >>
    /\ arg.mappings = << [co_id |-> "CO1", mapping_level |-> 3],
                         [co_id |-> "CO2", mapping_level |-> 1] >>
    /\ ret.value = Num(6375)

\* ------------------------------------------------------------------------
\* Properties of the evidence tracker
\* ------------------------------------------------------------------------
LookupDone == pc = "done" /\ fn = "get_evidence_for_field"

\* the positions of the blocks in which the field has a non-empty value
NonEmptyAt(blocks, field_name) ==
    {i \in 1..Len(blocks) :
        /\ field_name \in DOMAIN blocks[i].extracted_data
        /\ ~IsNone(blocks[i].extracted_data[field_name])
        /\ blocks[i].extracted_data[field_name] # Str("")}

\* C16: the evidence build_evidence_map records for a field is that of the first
\* block, in list order, in which the field has a non-empty value (not None, not
\* the empty string); a field with no such block has no entry, and the entry a
\* prefix of the list gives a field is the entry the whole list gives it.
C16_FirstOccurrenceKept ==
    LookupDone =>
        /\ \A field_name \in {"faculty_count", "total_faculty", "student_count"} :
              LET at == NonEmptyAt(arg.blocks, field_name)
              IN  IF at = {} THEN field_name \notin DOMAIN evidence_map
                  ELSE LET first == CHOOSE i \in at : \A j \in at : i <= j
                       IN  /\ field_name \in DOMAIN evidence_map
                           /\ evidence_map[field_name] =
                                  Ev(arg.blocks[first].evidence_snippet,
                                     arg.blocks[first].source_doc)
        /\ \A k \in 0..Len(arg.blocks) :
              LET before == build_evidence_map(SubSeq(arg.blocks, 1, k))
              IN  \A field_name \in DOMAIN before :
                     evidence_map[field_name] = before[field_name]

\* two blocks of different documents hold a faculty count: the first one's evidence
\* is the one recorded
C16_Witness ==
    /\ LookupDone
    /\ Len(arg.blocks) = 2
    /\ arg.blocks[1].extracted_data = ("faculty_count" :> Num(5))
    /\ arg.blocks[1].source_doc = "a.pdf"
    /\ arg.blocks[2].extracted_data = ("faculty_count" :> Num(5))
    /\ arg.blocks[2].source_doc = "b.pdf"
    /\ evidence_map["faculty_count"] = Ev("Faculty: 5", "a.pdf")

\* C17: for a field that has a non-null value in some block's data, the lookup of
\* the field in the map built from the blocks never returns an empty evidence record.
C17_LookupOfNonNullField ==
    LookupDone =>
        ( (\E i \in 1..Len(arg.blocks) :
              /\ arg.field_name \in DOMAIN arg.blocks[i].extracted_data
              /\ ~IsNone(arg.blocks[i].extracted_data[arg.field_name]))
          => ret # None )

ValidateDone == pc = "done" /\ fn = "validate_evidence"

\* C18: validate_evidence succeeds for every evidence when the value is null; for a
\* non-null value it succeeds exactly when the evidence has a non-empty snippet and
\* a non-empty source document; otherwise it returns failure with a reason.
C18_ValidateEvidence ==
    ValidateDone =>
        /\ IsNone(arg.value) => (ret.is_valid /\ IsNone(ret.error_message))
        /\ ~IsNone(arg.value) =>
              ( ret.is_valid <=>
                  /\ "snippet" \in DOMAIN arg.evidence
                  /\ arg.evidence["snippet"] # Str("")
                  /\ "source_doc" \in DOMAIN arg.evidence
                  /\ arg.evidence["source_doc"] # Str("") )
        /\ ret.is_valid => IsNone(ret.error_message)
        /\ ~ret.is_valid => (IsStr(ret.error_message) /\ ret.error_message # Str(""))

\* a value with a snippet but an empty source document fails with a reason
C18_Witness ==
    /\ ValidateDone
    /\ arg.value = Num(100)
    /\ arg.evidence = ("snippet" :> Str("Faculty: 5")) @@ ("source_doc" :> Str(""))
    /\ ~ret.is_valid
    /\ ret.error_message = Str("has no source document")

\* a value with a snippet and a source document passes
C18_WitnessValid ==
    /\ ValidateDone
    /\ arg.value = Num(100)
    /\ arg.evidence = ("snippet" :> Str("Faculty: 5")) @@ ("source_doc" :> Str("a.pdf"))
    /\ ret.is_valid

UtilsMarkDone == pc = "done" /\ fn = "utils_mark_batch_invalid_if_needed"

\* the value of the overall score in an evaluation's result map
OverallValue(kpi_results) == kpi_results["overall_score"].value

\* C19: after the utils guard is called with the result map of an evaluation and
\* a sufficiency result, the batch is invalid exactly when the evaluation's
\* overall score is unknown or zero, or the sufficiency percentage is zero, or no
\* block is present; in every other case the batch is valid.
C19_InvalidIffUnusable ==
    ( /\ UtilsMarkDone
      /\ "overall_score" \in DOMAIN arg.kpi_results
      /\ {"percentage", "present_count"} \subseteq DOMAIN arg.sufficiency_result )
    => /\ data.is_invalid \in {0, 1}
       /\ data.is_invalid = 1 <=>
             \/ IsNone(OverallValue(arg.kpi_results))
             \/ OverallValue(arg.kpi_results) = Num(0)
             \/ arg.sufficiency_result["percentage"] = Num(0)
             \/ arg.sufficiency_result["present_count"] = Num(0)

ServicesMarkDone == pc = "done" /\ fn = "services_mark_batch_invalid_if_needed"

\* C20: a batch that was flagged invalid before the services guard is called, and
\* holds a non-null, non-zero overall score and a non-zero sufficiency, is valid
\* after the call.
C20_RemarkedValid ==
    ( /\ ServicesMarkDone
      /\ ret.was_invalid = 1
      /\ IsNum(data.overall_score) /\ data.overall_score # Num(0)
      /\ IsNum(data.sufficiency) /\ data.sufficiency # Num(0) )
    => data.is_invalid = 0

\* C21: both guards are idempotent and touch only the validity flag: a second
\* call with the same inputs leaves is_invalid at its value after the first call,
\* every call leaves every other field of the batch as it was, and every call
\* returns a boolean (it does not raise).
C21_IdempotentFlagOnly ==
    [][ (fn \in {"utils_mark_batch_invalid_if_needed",
                 "services_mark_batch_invalid_if_needed"})
        => /\ DOMAIN data' = DOMAIN data
           /\ \A f \in DOMAIN data \ {"is_invalid"} : data'[f] = data[f]
           /\ data'.is_invalid \in {0, 1}
           /\ ret'.returned \in BOOLEAN
           /\ arg' = arg
           /\ pc = "done" => data'.is_invalid = data.is_invalid ]_vars

\* the utils guard called twice on a valid batch without results: the first call
\* marks it invalid, the second leaves it invalid
C21_Witness ==
    /\ pc = "again" /\ fn = "utils_mark_batch_invalid_if_needed"
    /\ arg.kpi_results = None
    /\ ret.was_invalid = 1 /\ ret.returned = TRUE
    /\ data.is_invalid = 1

\* the services guard called twice on a batch whose overall score is zero
C21_WitnessServices ==
    /\ pc = "again" /\ fn = "services_mark_batch_invalid_if_needed"
    /\ data.overall_score = Num(0)
    /\ ret.was_invalid = 1 /\ ret.returned = FALSE
    /\ data.is_invalid = 1

DispatchDone ==
    pc = "done" /\ fn \in {"calculate_naac_criterion", "calculate_nirf_parameter"}

\* C22: calculate_naac_criterion with an id outside criterion_1..criterion_7 and
\* calculate_nirf_parameter with a name outside tlr, rp, go, oi, pr raise instead
\* of returning an unknown score.
C22_UnknownIdRaises ==
    ( /\ DispatchDone
      /\ \/ fn = "calculate_naac_criterion" /\ arg \notin NaacCriterionIds
         \/ fn = "calculate_nirf_parameter" /\ Lower(arg) \notin NirfParameterNames )
    => ret.raised

\* C23: for each of the modes aicte, nba, naac and nirf and every list of
\* blocks, calculate_kpis returns without raising a map with one entry per KPI
\* configured for the mode and an overall_score entry, each value unknown or a
\* number.
C23_KpisNeverRaise ==
    ( /\ fn = "calculate_kpis" /\ pc # "ready"
      /\ Lower(arg.mode) \in {"aicte", "nba", "naac", "nirf"} )
    => /\ pc = "done"
       /\ DOMAIN ret = Elems(get_kpi_formulas(arg.mode)) \cup {"overall_score"}
       /\ \A k \in DOMAIN ret : IsNone(ret[k].value) \/ IsNum(ret[k].value)

\* a formula of the invocation has been called
FormulaCalled == fn = "calculate_kpis" /\ DOMAIN ret # {}

\* C24: within one calculate_kpis invocation no formula is called before the fact
\* aggregation and the evidence-map build have both finished, and every formula
\* call receives the same completed fact set and evidence map: neither changes
\* once the loop over the formulas has been reached.
C24_AggregationBeforeFormulas ==
    /\ [](FormulaCalled =>
            /\ pc \in {"formulas", "overall", "done"}
            /\ data = KpisExtractedData(arg.blocks, arg.aggregated_data)
            /\ evidence_map = KpisEvidenceMap(arg.blocks)
            /\ \A k \in DOMAIN ret \ {"overall_score"} :
                  ret[k].value = KpiValue(KpiScore(arg.mode, k, data, evidence_map)))
    /\ [][(pc = "formulas" \/ FormulaCalled) => UNCHANGED <<data, evidence_map>>]_vars
    /\ [](pc = "done" =>
            \E tie_up \in BOOLEAN :
               ret = calculate_kpis(arg.mode, arg.blocks, arg.aggregated_data,
                                    tie_up).kpi_results)

\* an AICTE invocation over two blocks in the middle of the loop: the FSR formula
\* has been called and returned a number, the fact set and the evidence map are
\* complete
C24_Witness ==
    /\ pc = "formulas" /\ Lower(arg.mode) = "aicte"
    /\ Len(arg.blocks) = 2
    /\ DOMAIN ret = {"fsr_score"} /\ IsNum(ret["fsr_score"].value)
    /\ "faculty_count" \in DOMAIN evidence_map
    /\ "student_count" \in DOMAIN data

BlocksDone == pc = "done" /\ fn = "_aggregate_block_data"

\* the valid blocks of the list that hold the field in its raw or its _num form
SupplyingBlocks(blocks, field) ==
    { j \in 1..Len(blocks) :
        /\ ~blocks[j].is_invalid
        /\ {field, NumKey(field)} \cap DOMAIN blocks[j].extracted_data # {} }

\* the numeric values those blocks hold for the field
ValidValues(blocks, field) ==
    UNION { { Val(blocks[j].extracted_data[k]) :
                k \in {field, NumKey(field)} \cap DOMAIN blocks[j].extracted_data } :
            j \in SupplyingBlocks(blocks, field) }

SetMax(S) == CHOOSE m \in S : \A x \in S : x <= m

\* C25: _aggregate_block_data ignores the blocks flagged invalid, and a field that
\* two or more valid blocks hold with a numeric value, in the raw form, the _num
\* form or both, is aggregated, together with its _num form, to the maximum of
\* those values, whatever the order of the blocks.
C25_AggregateKeepsMaximum ==
    BlocksDone =>
        /\ ret = _aggregate_block_data(SelectSeq(arg, LAMBDA b : ~b.is_invalid))
        /\ Cardinality(SupplyingBlocks(arg, "faculty_count")) >= 2 =>
              /\ Get(ret, "faculty_count")
                   = Num(SetMax(ValidValues(arg, "faculty_count")))
              /\ Get(ret, "faculty_count_num")
                   = Num(SetMax(ValidValues(arg, "faculty_count")))

\* ------------------------------------------------------------------------
\* Properties of the NIRF engine's parameter functions
\* ------------------------------------------------------------------------
EngineDone == pc = "done" /\ fn \in {"tlr", "rp", "go", "oi", "nirf_pr"}

\* C26: every score that calculate_tlr, calculate_rp, calculate_go, calculate_oi
\* and calculate_pr of the NIRF engine return is unknown or a number between 0 and
\* 100, for all non-negative arguments, perception answers and counts above their
\* benchmark included.
C26_EngineScoresInRange ==
    EngineDone =>
        \/ IsNone(ret.score)
        \/ (Val(ret.score) >= 0 /\ Val(ret.score) <= 10000)

\* ------------------------------------------------------------------------
\* Properties of the evidence that calculate_kpis hands to the formulas
\* ------------------------------------------------------------------------
\* the block is taken by the aggregator and carries a snippet and a source document
EvidencedBlock(block) ==
    ~block.is_invalid /\ block.evidence_snippet # "" /\ block.source_doc # ""

\* some evidenced block holds a number under one of the names
EvidencedUnder(blocks, names) ==
    \E j \in 1..Len(blocks) :
        /\ EvidencedBlock(blocks[j])
        /\ \E k \in names : IsNum(Get(blocks[j].extracted_data, k))

\* no block holds one of the names
HeldNowhere(blocks, names) ==
    \A j \in 1..Len(blocks) : DOMAIN blocks[j].extracted_data \cap names = {}

\* C27: in an AICTE run of calculate_kpis, when the blocks hold the student count
\* only under an alias the aggregator maps to student_count (total_intake or
\* admitted_students), in a block with a snippet and a source document, and hold an
\* evidenced faculty count, the FSR score is a number.
C27_AliasKeepsEvidence ==
    ( /\ KpisDone /\ Lower(arg.mode) = "aicte"
      /\ EvidencedUnder(arg.blocks, {"total_intake", "admitted_students"})
      /\ HeldNowhere(arg.blocks, {"student_count", "student_count_num",
                                  "total_students", "total_students_num",
                                  "total_intake_num"})
      /\ EvidencedUnder(arg.blocks, {"faculty_count", "total_faculty"}) )
    => IsNum(ret["fsr_score"].value)

\* the blocks the aggregator takes
AggregatedBlocks(blocks) == SelectSeq(blocks, LAMBDA b : ~b.is_invalid)

\* C28: in calculate_kpis every evidence record the formulas validate a fact with
\* comes from a block that is not flagged invalid: the evidence map is the one the
\* blocks taken by the aggregator give, so a skipped block neither supplies the
\* record of a field nor, by coming first in the list, displaces the record of a
\* valid block.
C28_EvidenceFromValidBlocks ==
    (KpisDone /\ arg.blocks # << >>) =>
        evidence_map = build_evidence_map(AggregatedBlocks(arg.blocks))

\* ------------------------------------------------------------------------
\* Properties of the pipeline runs on a batch
\* ------------------------------------------------------------------------
HeavyPathCompleted ==
    pc = "done" /\ fn = "heavy_path" /\ ret.status = "completed"

\* C29: after any sequence of fast_path and heavy_path runs on a batch, whenever a
\* heavy_path run ends with the status completed the batch's is_invalid flag is 0,
\* also when an earlier run on the batch ended invalid and set the flag, so that
\* filter_valid_batches keeps every completed batch.
C29_CompletedBatchIsValid ==
    [](HeavyPathCompleted =>
          /\ data.status = "completed"
          /\ data.is_invalid = 0
          /\ filter_valid_batches_keeps(data))

\* ------------------------------------------------------------------------
\* Properties of the two evidence validators
\* ------------------------------------------------------------------------
GuardValidateDone == pc = "done" /\ fn = "validate_evidence_required"

\* C30: the two evidence validators agree on every value and evidence record:
\* ProductionGuard.validate_evidence_required accepts exactly when
\* EvidenceTracker.validate_evidence accepts, and a non-null value whose evidence
\* lacks the snippet or the source document is rejected by both.
C30_ValidatorsAgree ==
    /\ GuardValidateDone =>
          ( ret.has_evidence <=> validate_evidence(arg.value, arg.evidence).is_valid )
    /\ ValidateDone =>
          ( ret.is_valid <=>
              validate_evidence_required(arg.value, EvidenceRecord(arg.evidence)) )
    /\ ( /\ GuardValidateDone \/ ValidateDone
         /\ ~IsNone(arg.value)
         /\ \/ ~Truthy(Get(arg.evidence, "snippet"))
            \/ ~Truthy(Get(arg.evidence, "source_doc")) )
       => IF GuardValidateDone THEN ~ret.has_evidence ELSE ~ret.is_valid

====
